---- MODULE Spec2Model ----
(***************************************************************************)
(* checkDK: the analysis pipeline (Compose and Kubernetes), the fix        *)
(* synthesis with its AI provider, and the docker / kubectl wrappers.      *)
(*                                                                         *)
(* Python values are modelled as tagged records (PyNone, PyStr, PyInt,     *)
(* PyBool, PyList, PyDict); a str is a sequence of one-character strings,  *)
(* a dict is a sequence of <<key, value>> pairs in insertion order, with   *)
(* keys that are character sequences.  An operation that raises yields     *)
(* the value Exc, which every accessor propagates.                         *)
(***************************************************************************)
EXTENDS Integers, Sequences, FiniteSets, TLC

\* ------------------------------------------------------------------------
\* Python values
\* ------------------------------------------------------------------------
PyNone == [t |-> "none"]
PyStr(s) == [t |-> "str", s |-> s]
PyInt(i) == [t |-> "int", i |-> i]
PyBool(b) == [t |-> "bool", b |-> b]
PyList(l) == [t |-> "list", l |-> l]
PyDict(d) == [t |-> "dict", d |-> d]
\* a raised exception, as a value
Exc == [t |-> "exc"]
\* a str literal of the code whose characters nothing inspects
Lit(text) == [t |-> "lit", text |-> text]
\* a set (list(a_set) has no order the code fixes)
PySet(e) == [t |-> "set", e |-> e]

\* bool(v)
Truthy(v) ==
    CASE v.t = "none" -> FALSE
      [] v.t = "str" -> Len(v.s) > 0
      [] v.t = "int" -> v.i # 0
      [] v.t = "bool" -> v.b
      [] v.t = "list" -> Len(v.l) > 0
      [] v.t = "dict" -> Len(v.d) > 0
      [] OTHER -> FALSE

\* concatenation of a sequence of sequences
RECURSIVE Flatten(_)
Flatten(ss) == IF ss = <<>> THEN <<>> ELSE Head(ss) \o Flatten(Tail(ss))
\* the element of a singleton: The({e(x) : x \in {v}}) is e with x bound to the
\* value of v, computed once (a local variable of the code)
The(singleton) == CHOOSE x \in singleton : TRUE

\* ------------------------------------------------------------------------
\* str operations
\* ------------------------------------------------------------------------
\* s.startswith(p)
StartsWith(s, p) == Len(s) >= Len(p) /\ SubSeq(s, 1, Len(p)) = p
\* s.endswith(p)
EndsWith(s, p) == Len(s) >= Len(p) /\ SubSeq(s, Len(s) - Len(p) + 1, Len(s)) = p
\* s.find(p) + 1: the position of the first occurrence of p in s, 0 when there is none
Find(s, p) ==
    LET hits == {i \in 1..(Len(s) - Len(p) + 1) : SubSeq(s, i, i + Len(p) - 1) = p}
    IN IF hits = {} THEN 0 ELSE CHOOSE i \in hits : \A j \in hits : i <= j
\* p in s
Contains(s, p) == Find(s, p) # 0
\* s.split(sep, 1): <<s>> or <<before, after>>
SplitOnce(s, sep) ==
    LET i == Find(s, sep)
    IN IF i = 0 THEN <<s>>
       ELSE <<SubSeq(s, 1, i - 1), SubSeq(s, i + Len(sep), Len(s))>>
\* s.split(sep)[0]
SplitHead(s, sep) == SplitOnce(s, sep)[1]

Digits == <<"0", "1", "2", "3", "4", "5", "6", "7", "8", "9">>
IsDigit(c) == \E d \in 1..10 : Digits[d] = c
RECURSIVE DigitsVal(_)
DigitsVal(s) == IF s = <<>> THEN 0 ELSE 10 * DigitsVal(SubSeq(s, 1, Len(s) - 1)) + (CHOOSE d \in 1..10 : Digits[d] = s[Len(s)]) - 1
\* int(s) for a str s: the number, or Exc for the ValueError
IntOfStr(s) ==
    IF Len(s) > 0 /\ \A i \in 1..Len(s) : IsDigit(s[i]) THEN PyInt(DigitsVal(s)) ELSE Exc
\* str(n) for a natural number n
RECURSIVE StrOfNat(_)
StrOfNat(n) == IF n < 10 THEN <<Digits[n + 1]>> ELSE Append(StrOfNat(n \div 10), Digits[(n % 10) + 1])

\* ------------------------------------------------------------------------
\* dict operations
\* ------------------------------------------------------------------------
\* d is a sequence of <<key, value>> pairs, in the order of insertion
HasKey(d, k) == \E i \in 1..Len(d) : d[i][1] = k
Lookup(d, k) == d[CHOOSE i \in 1..Len(d) : d[i][1] = k][2]
\* v.get(k, default): AttributeError when v is not a dict
Get(v, k, default) ==
    IF v.t # "dict" THEN Exc
    ELSE IF HasKey(v.d, k) THEN Lookup(v.d, k) ELSE default
\* k in v, for a dict v (the validators only test membership on dicts)
In(v, k) == v.t = "dict" /\ HasKey(v.d, k)
\* iter(v) succeeds (a for loop over anything else raises TypeError)
Iterable(v) == v.t \in {"list", "dict", "str"}
\* the items a for loop over v visits
Items(v) ==
    CASE v.t = "list" -> v.l
      [] v.t = "dict" -> [i \in 1..Len(v.d) |-> PyStr(v.d[i][1])]
      [] v.t = "str" -> [i \in 1..Len(v.s) |-> PyStr(<<v.s[i]>>)]
      [] OTHER -> <<>>
\* hash(v) succeeds: v may be tested for membership in a set or used as a key
Hashable(v) == v.t \in {"none", "str", "int", "bool"}

\* ------------------------------------------------------------------------
\* models.py
\* ------------------------------------------------------------------------
CRITICAL == "critical"
WARNING == "warning"
INFO == "info"

\* a message or a step: the literal text with its interpolated values
Text(fmt, args) == [fmt |-> fmt, args |-> args]

Issue(type, severity, message, file_path, service_name, details) ==
    [type |-> type, severity |-> severity, message |-> message,
     file_path |-> file_path, service_name |-> service_name, details |-> details]

\* Issue.details is a sequence of <<name, value>> pairs; details.get(k, default)
Detail(issue, k, default) ==
    IF \E i \in 1..Len(issue.details) : issue.details[i][1] = k
    THEN issue.details[CHOOSE i \in 1..Len(issue.details) : issue.details[i][1] = k][2]
    ELSE default

Fix(description, steps, explanation, root_cause) ==
    [description |-> description, steps |-> steps, auto_applicable |-> FALSE,
     explanation |-> explanation, root_cause |-> root_cause]

\* AnalysisResult(success=..., issues=..., fixes=...)
AnalysisResult(success, issues, fixes) ==
    [success |-> success, issues |-> issues, fixes |-> fixes, warnings |-> <<>>]

has_critical_errors(r) == \E i \in 1..Len(r.issues) : r.issues[i].severity = CRITICAL
has_warnings(r) ==
    (\E i \in 1..Len(r.issues) : r.issues[i].severity = WARNING) \/ Len(r.warnings) > 0

\* DockerComposeConfig(), every field at its default
EmptyConfig ==
    [version |-> PyNone, services |-> PyDict(<<>>), networks |-> PyDict(<<>>),
     volumes |-> PyDict(<<>>), raw_config |-> PyDict(<<>>)]
\* the field types DockerComposeConfig declares: construction raises otherwise
ConfigFieldsValid(version, services, networks, volumes) ==
    /\ version.t \in {"none", "str"}
    /\ services.t = "dict"
    /\ networks.t = "dict"
    /\ volumes.t = "dict"

\* ------------------------------------------------------------------------
\* the keys the code reads
\* ------------------------------------------------------------------------
\* the keys the code reads from mappings and from the environment
K ==
    [version |-> <<"v", "e", "r", "s", "i", "o", "n">>,
     services |-> <<"s", "e", "r", "v", "i", "c", "e", "s">>,
     networks |-> <<"n", "e", "t", "w", "o", "r", "k", "s">>,
     volumes |-> <<"v", "o", "l", "u", "m", "e", "s">>,
     image |-> <<"i", "m", "a", "g", "e">>,
     build |-> <<"b", "u", "i", "l", "d">>,
     ports |-> <<"p", "o", "r", "t", "s">>,
     published |-> <<"p", "u", "b", "l", "i", "s", "h", "e", "d">>,
     target |-> <<"t", "a", "r", "g", "e", "t">>,
     environment |-> <<"e", "n", "v", "i", "r", "o", "n", "m", "e", "n", "t">>,
     depends_on |-> <<"d", "e", "p", "e", "n", "d", "s", "_", "o", "n">>,
     links |-> <<"l", "i", "n", "k", "s">>,
     deploy |-> <<"d", "e", "p", "l", "o", "y">>,
     resources |-> <<"r", "e", "s", "o", "u", "r", "c", "e", "s">>,
     limits |-> <<"l", "i", "m", "i", "t", "s">>,
     restart |-> <<"r", "e", "s", "t", "a", "r", "t">>,
     replicas |-> <<"r", "e", "p", "l", "i", "c", "a", "s">>,
     kind |-> <<"k", "i", "n", "d">>,
     metadata |-> <<"m", "e", "t", "a", "d", "a", "t", "a">>,
     name |-> <<"n", "a", "m", "e">>,
     namespace |-> <<"n", "a", "m", "e", "s", "p", "a", "c", "e">>,
     spec |-> <<"s", "p", "e", "c">>,
     type |-> <<"t", "y", "p", "e">>,
     nodePort |-> <<"n", "o", "d", "e", "P", "o", "r", "t">>,
     port |-> <<"p", "o", "r", "t">>,
     protocol |-> <<"p", "r", "o", "t", "o", "c", "o", "l">>,
     template |-> <<"t", "e", "m", "p", "l", "a", "t", "e">>,
     containers |-> <<"c", "o", "n", "t", "a", "i", "n", "e", "r", "s">>,
     securityContext |-> <<"s", "e", "c", "u", "r", "i", "t", "y", "C", "o", "n", "t", "e", "x", "t">>,
     privileged |-> <<"p", "r", "i", "v", "i", "l", "e", "g", "e", "d">>,
     runAsNonRoot |-> <<"r", "u", "n", "A", "s", "N", "o", "n", "R", "o", "o", "t">>,
     runAsUser |-> <<"r", "u", "n", "A", "s", "U", "s", "e", "r">>,
     livenessProbe |-> <<"l", "i", "v", "e", "n", "e", "s", "s", "P", "r", "o", "b", "e">>,
     readinessProbe |-> <<"r", "e", "a", "d", "i", "n", "e", "s", "s", "P", "r", "o", "b", "e">>,
     selector |-> <<"s", "e", "l", "e", "c", "t", "o", "r">>,
     matchLabels |-> <<"m", "a", "t", "c", "h", "L", "a", "b", "e", "l", "s">>,
     labels |-> <<"l", "a", "b", "e", "l", "s">>,
     GROQ_API_KEY |-> <<"G", "R", "O", "Q", "_", "A", "P", "I", "_", "K", "E", "Y">>,
     GEMINI_API_KEY |-> <<"G", "E", "M", "I", "N", "I", "_", "A", "P", "I", "_", "K", "E", "Y">>,
     GOOGLE_API_KEY |-> <<"G", "O", "O", "G", "L", "E", "_", "A", "P", "I", "_", "K", "E", "Y">>,
     app |-> <<"a", "p", "p">>]

\* the string literals the code compares values with
S ==
    [latest |-> <<":", "l", "a", "t", "e", "s", "t">>,
     always |-> <<"a", "l", "w", "a", "y", "s">>,
     unless_stopped |-> <<"u", "n", "l", "e", "s", "s", "-", "s", "t", "o", "p", "p", "e", "d">>,
     default |-> <<"d", "e", "f", "a", "u", "l", "t">>,
     Service |-> <<"S", "e", "r", "v", "i", "c", "e">>,
     NodePort |-> <<"N", "o", "d", "e", "P", "o", "r", "t">>,
     Deployment |-> <<"D", "e", "p", "l", "o", "y", "m", "e", "n", "t">>,
     Pod |-> <<"P", "o", "d">>,
     StatefulSet |-> <<"S", "t", "a", "t", "e", "f", "u", "l", "S", "e", "t">>,
     DaemonSet |-> <<"D", "a", "e", "m", "o", "n", "S", "e", "t">>,
     TCP |-> <<"T", "C", "P">>,
     unknown |-> <<"u", "n", "k", "n", "o", "w", "n">>]

\* ------------------------------------------------------------------------
\* parsers/docker_compose.py
\* ------------------------------------------------------------------------
\* the path the parser was given, as Issue.file_path records it
FilePath == [t |-> "path"]

\* os.getenv(name, default) in the process environment env (a pair sequence)
Getenv(env, name, default) == IF HasKey(env, name) THEN PyStr(Lookup(env, name)) ELSE default

\* _resolve_env_vars on a str: the value it returns and the issues it appends
ResolveScalar(config, env) ==
    IF StartsWith(config.s, <<"$", "{">>) /\ EndsWith(config.s, <<"}">>)
    THEN LET inner == SubSeq(config.s, 3, Len(config.s) - 1)
             parts == IF Contains(inner, <<":", "-">>) THEN SplitOnce(inner, <<":", "-">>) ELSE <<inner>>
             var_name == parts[1]
             default_value == IF Len(parts) = 2 THEN PyStr(parts[2]) ELSE PyNone
             value == Getenv(env, var_name, default_value)
         IN [v |-> IF Truthy(value) THEN value ELSE config,
             issues |-> IF value = PyNone
                        THEN <<Issue("missing_env_var", WARNING,
                                     Text("Environment variable not set: {}", <<PyStr(var_name)>>),
                                     PyNone, PyNone, <<<<"variable", PyStr(var_name)>>>>)>>
                        ELSE <<>>]
    ELSE [v |-> config, issues |-> <<>>]

\* _resolve_env_vars: depth first over dicts and lists, in order
RECURSIVE resolve_env_vars(_, _)
resolve_env_vars(config, env) ==
    CASE config.t = "dict" ->
           LET r == [i \in 1..Len(config.d) |-> resolve_env_vars(config.d[i][2], env)]
           IN [v |-> PyDict([i \in 1..Len(config.d) |-> <<config.d[i][1], r[i].v>>]),
               issues |-> Flatten([i \in 1..Len(config.d) |-> r[i].issues])]
      [] config.t = "list" ->
           LET r == [i \in 1..Len(config.l) |-> resolve_env_vars(config.l[i], env)]
           IN [v |-> PyList([i \in 1..Len(config.l) |-> r[i].v]),
               issues |-> Flatten([i \in 1..Len(config.l) |-> r[i].issues])]
      [] config.t = "str" -> ResolveScalar(config, env)
      [] OTHER -> [v |-> config, issues |-> <<>>]

\* the issue _validate_structure appends for one service, if any
StructureIssue(service_name, service_config) ==
    IF service_config.t # "dict"
    THEN <<Issue("invalid_yaml", CRITICAL,
                 Text("Service '{}' configuration must be a dictionary", <<PyStr(service_name)>>),
                 FilePath, PyStr(service_name), <<>>)>>
    ELSE IF ~In(service_config, K.image) /\ ~In(service_config, K.build)
    THEN <<Issue("invalid_yaml", CRITICAL,
                 Text("Service '{}' must specify 'image' or 'build'", <<PyStr(service_name)>>),
                 FilePath, PyStr(service_name), <<>>)>>
    ELSE <<>>

\* _validate_structure: the issues it appends for the constructed config
validate_structure(config) ==
    IF ~Truthy(config.services)
    THEN <<Issue("invalid_yaml", CRITICAL, Text("No services defined in Docker Compose file", <<>>),
                 FilePath, PyNone, <<>>)>>
    ELSE Flatten([i \in 1..Len(config.services.d) |->
                    StructureIssue(config.services.d[i][1], config.services.d[i][2])])

\* the input file: absent, or present with what yaml.safe_load makes of it
\* (YamlError when it raises yaml.YAMLError)
YamlError == [t |-> "yamlerror"]
AbsentFile == [exists |-> FALSE, content |-> PyNone]
FileOf(content) == [exists |-> TRUE, content |-> content]

InvalidYaml(fmt) == Issue("invalid_yaml", CRITICAL, Text(fmt, <<>>), FilePath, PyNone, <<>>)

\* DockerComposeParser.parse on an instance whose issues are self_issues:
\* the issues afterwards and the config returned
parse(file, env, self_issues) ==
    IF ~file.exists
    THEN [issues |-> Append(self_issues, InvalidYaml("Docker Compose file not found: {path}")),
          config |-> EmptyConfig]
    ELSE IF file.content = YamlError
    THEN [issues |-> Append(self_issues, InvalidYaml("YAML parsing error: {e}")),
          config |-> EmptyConfig]
    ELSE IF file.content.t # "dict"
    THEN [issues |-> Append(self_issues,
                            InvalidYaml("Invalid Docker Compose file: root must be a dictionary")),
          config |-> EmptyConfig]
    ELSE The({
           IF ~ConfigFieldsValid(config.version, config.services, config.networks, config.volumes)
           THEN [issues |-> Append(self_issues \o resolved.issues,
                                   InvalidYaml("Unexpected error parsing file: {e}")),
                 config |-> EmptyConfig]
           ELSE [issues |-> self_issues \o resolved.issues \o validate_structure(config),
                 config |-> config] :
           <<resolved, config>> \in
               {<<r, [version |-> Get(r.v, K.version, PyNone),
                      services |-> Get(r.v, K.services, PyDict(<<>>)),
                      networks |-> Get(r.v, K.networks, PyDict(<<>>)),
                      volumes |-> Get(r.v, K.volumes, PyDict(<<>>)),
                      raw_config |-> r.v]>> : r \in {resolve_env_vars(file.content, env)}}})

\* ------------------------------------------------------------------------
\* validators/port_validator.py
\* ------------------------------------------------------------------------
\* the value of an int (a bool is an int in Python)
IntVal(v) == IF v.t = "bool" THEN (IF v.b THEN 1 ELSE 0) ELSE v.i

\* int(v): Exc for the ValueError of a non-numeric str; TypeErr for the
\* TypeError of a value that is no number and no str
TypeErr == [t |-> "exc", uncaught |-> TRUE]
IntOf(v) ==
    CASE v.t = "str" -> IntOfStr(v.s)
      [] v.t \in {"int", "bool"} -> PyInt(IntVal(v))
      [] OTHER -> TypeErr

\* _extract_host_port: an int, PyNone, or TypeErr when int() raises TypeError
extract_host_port(port_mapping) ==
    CASE port_mapping.t \in {"int", "bool"} -> port_mapping
      [] port_mapping.t = "str" ->
           LET n == IntOfStr(SplitHead(port_mapping.s, <<":">>))
           IN IF n = Exc THEN PyNone ELSE n
      [] port_mapping.t = "dict" ->
           LET published == Get(port_mapping, K.published, PyNone)
           IN IF Truthy(published)
              THEN LET n == IntOf(published) IN IF n = Exc THEN PyNone ELSE n
              ELSE PyNone
      [] OTHER -> PyNone

\* what one live probe of a host port finds: _is_port_in_use false ("free", also
\* when the socket call fails), or true with what _get_process_using_port returns
ProcessInfo(outcome) ==
    CASE outcome = "used_unknown" -> [t |-> "proc", pid |-> 4242, name |-> "unknown"]
      [] outcome = "used_named" -> [t |-> "proc", pid |-> 4242, name |-> "nginx"]
      [] OTHER -> PyNone

\* the (service, port mapping) pairs validate visits, in order; a service whose
\* ports cannot be iterated contributes the pair (service, Exc)
PortEvents(config) ==
    Flatten([i \in 1..Len(config.services.d) |->
        LET service_name == config.services.d[i][1]
            service_config == config.services.d[i][2]
            ports == Get(service_config, K.ports, PyList(<<>>))
        IN IF service_config.t # "dict" THEN <<>>
           ELSE IF ~Iterable(ports) THEN <<[service |-> service_name, pm |-> Exc]>>
           ELSE [j \in 1..Len(Items(ports)) |-> [service |-> service_name, pm |-> Items(ports)[j]]]])

\* the issue for a second claim of host_port, naming the second service alone
DuplicatePortIssueOwnService(host_port, first, service_name) ==
    Issue("port_conflict", CRITICAL,
          Text("Port {} is used by multiple services: '{}' and '{}'",
               <<host_port, PyStr(service_name), PyStr(service_name)>>),
          PyNone, PyStr(service_name),
          <<<<"port", host_port>>, <<"conflicting_service", PyStr(service_name)>>>>)

\* the issue for a second claim of host_port
DuplicatePortIssue(host_port, first, service_name) ==
    Issue("port_conflict", CRITICAL,
          Text("Port {} is used by multiple services: '{}' and '{}'",
               <<host_port, PyStr(first), PyStr(service_name)>>),
          PyNone, PyStr(service_name),
          <<<<"port", host_port>>, <<"conflicting_service", PyStr(first)>>>>)

\* the issue for a host port found bound on the system
PortInUseIssue(host_port, service_name, process_info) ==
    Issue("port_conflict", CRITICAL,
          IF process_info = PyNone
          THEN Text("Port {} on service '{}' is already in use", <<host_port, PyStr(service_name)>>)
          ELSE Text("Port {} on service '{}' is already in use by {} (PID {})",
                    <<host_port, PyStr(service_name), process_info>>),
          PyNone, PyStr(service_name),
          <<<<"port", host_port>>, <<"process", process_info>>>>)

\* used_ports after a claim that replaces the owner of host_port
ClaimOverwriting(used_ports, host_port, service_name) ==
    SelectSeq(used_ports, LAMBDA entry_ : entry_[1] # host_port) \o <<<<host_port, service_name>>>>
\* used_ports after service_name claimed host_port: used_ports[host_port] =
\* service_name unless host_port in used_ports
Claim(used_ports, host_port, service_name) ==
    IF HasKey(used_ports, host_port) THEN used_ports
    ELSE Append(used_ports, <<host_port, service_name>>)

\* the state of validate's loop after the first n pairs: the host port -> first
\* service map, the issues, the number of probes made, and whether it raised
RECURSIVE PortScan(_, _, _)
PortScan(events, probe, n) ==
    IF n = 0 THEN [used_ports |-> <<>>, issues |-> <<>>, probes |-> 0, raised |-> FALSE]
    ELSE LET st == PortScan(events, probe, n - 1)
             e == events[n]
             host_port == extract_host_port(e.pm)
         IN IF st.raised \/ e.pm = Exc \/ host_port.t = "exc" THEN [st EXCEPT !.raised = TRUE]
            ELSE IF host_port = PyNone THEN st
            ELSE LET dup == HasKey(st.used_ports, host_port)
                     outcome == probe[st.probes + 1]
                     issues1 == IF dup
                                THEN Append(st.issues,
                                            DuplicatePortIssue(host_port, Lookup(st.used_ports, host_port), e.service))
                                ELSE st.issues
                 IN [used_ports |-> Claim(st.used_ports, host_port, e.service),
                     issues |-> IF outcome = "free" THEN issues1
                                ELSE Append(issues1, PortInUseIssue(host_port, e.service, ProcessInfo(outcome))),
                     probes |-> st.probes + 1,
                     raised |-> FALSE]

\* PortValidator.validate with the live probes answering probe[1], probe[2], ...
PortValidate(config, probe) ==
    LET events == PortEvents(config) IN PortScan(events, probe, Len(events))

\* PortValidator.generate_fix
PortGenerateFix(issue) ==
    LET port == Detail(issue, "port", PyNone)
        process_info == Detail(issue, "process", PyNone)
        stop == IF process_info = PyNone THEN <<>>
                ELSE <<Text("Option 1: Stop the process using port {}", <<port>>),
                       Text("  sudo kill {}  # Stop {}", <<process_info>>)>>
    IN Fix(Text("Fix port {} conflict", <<port>>),
           stop \o <<Text("Option 2: Change the port mapping in docker-compose.yml", <<>>),
                     Text("  ports:", <<>>),
                     Text("    - \"{}:80\"  # Change {} to {}",
                          <<PyInt(IntVal(port) + 1), port, PyInt(IntVal(port) + 1)>>)>>,
           PyNone, PyNone)

\* ------------------------------------------------------------------------
\* validators/compose_validator.py
\* ------------------------------------------------------------------------
\* what a validator's loop body yields for one service: the issues it appends,
\* or raised when an exception leaves it
Found(issues) == [issues |-> issues, raised |-> FALSE]
Raised == [issues |-> <<>>, raised |-> TRUE]
\* the loop over the services: an exception in any iteration leaves the validator
Combine(rs) ==
    [issues |-> Flatten([i \in 1..Len(rs) |-> rs[i].issues]),
     raised |-> \E i \in 1..Len(rs) : rs[i].raised]
\* for service_name, service_config in services.items(): body, skipping a
\* service_config that is not a dict
ForServices(config, Body(_, _)) ==
    Combine([i \in 1..Len(config.services.d) |->
        IF config.services.d[i][2].t # "dict" THEN Found(<<>>)
        ELSE Body(config.services.d[i][1], config.services.d[i][2])])
\* the same for a loop over the items of one value, which must be iterable
ForItems(v, Body(_)) ==
    IF ~Iterable(v) THEN Raised
    ELSE Combine([i \in 1..Len(Items(v)) |-> Body(Items(v)[i])])


\* validate_images, one service
ImagesOf(service_name, service_config) ==
    LET missing == IF ~In(service_config, K.image) /\ ~In(service_config, K.build)
                   THEN <<Issue("missing_image", CRITICAL,
                                Text("Service '{}' has no image or build specification",
                                     <<PyStr(service_name)>>),
                                PyNone, PyStr(service_name),
                                <<<<"reason", Lit("Every service needs either an image or build directive")>>>>)>>
                   ELSE <<>>
        image == Get(service_config, K.image, PyStr(<<>>))
    IN IF ~Truthy(image) THEN Found(missing)
       ELSE IF image.t # "str" THEN Raised
       ELSE IF EndsWith(image.s, S.latest) \/ ~Contains(image.s, <<":">>)
       THEN Found(Append(missing,
                         Issue("image_version", WARNING,
                               Text("Service '{}' uses 'latest' tag or no tag for image '{}'",
                                    <<PyStr(service_name), image>>),
                               PyNone, PyStr(service_name),
                               <<<<"image", image>>,
                                 <<"reason", Lit("Using :latest can lead to unpredictable deployments")>>>>)))
       ELSE Found(missing)

validate_images(config) == ForServices(config, ImagesOf)

\* the end of the longest run of [A-Z0-9_] that starts at position i of s
RECURSIVE NameEnd(_, _)
NameEnd(s, i) ==
    IF i <= Len(s) /\ (s[i] \in {"A", "B", "C", "D", "E", "F", "G", "H", "I", "J", "K", "L", "M",
                 "N", "O", "P", "Q", "R", "S", "T", "U", "V", "W", "X", "Y", "Z"} \/ IsDigit(s[i]) \/ s[i] = "_")
    THEN NameEnd(s, i + 1) ELSE i - 1
\* env_var_pattern.findall(entry), scanning from position i: the variable names,
\* match[0] or match[1], left to right
RECURSIVE EnvRefs(_, _)
EnvRefs(s, i) ==
    IF i > Len(s) THEN <<>>
    ELSE IF s[i] # "$" THEN EnvRefs(s, i + 1)
    ELSE LET close == Find(SubSeq(s, i + 2, Len(s)), <<"}">>)
         IN IF i + 1 <= Len(s) /\ s[i + 1] = "{" /\ close > 1
            THEN <<SubSeq(s, i + 2, i + close)>> \o EnvRefs(s, i + close + 2)
            ELSE IF i + 1 <= Len(s) /\ (s[i + 1] \in {"A", "B", "C", "D", "E", "F", "G", "H", "I", "J", "K", "L", "M",
                 "N", "O", "P", "Q", "R", "S", "T", "U", "V", "W", "X", "Y", "Z"} \/ s[i + 1] = "_")
            THEN <<SubSeq(s, i + 1, NameEnd(s, i + 2))>> \o EnvRefs(s, NameEnd(s, i + 2) + 1)
            ELSE EnvRefs(s, i + 1)

\* str(v) for the values an environment mapping holds here (str, int, bool)
PyToStr(v) ==
    CASE v.t = "str" -> v.s
      [] v.t = "int" -> StrOfNat(v.i)
      [] v.t = "bool" -> IF v.b THEN <<"T", "r", "u", "e">> ELSE <<"F", "a", "l", "s", "e">>
      [] OTHER -> <<>>

\* env_entries for an environment given as a list or as a dict
EnvEntries(environment) ==
    IF environment.t = "list" THEN environment.l
    ELSE [i \in 1..Len(environment.d) |->
            IF Truthy(environment.d[i][2])
            THEN PyStr(environment.d[i][1] \o <<"=">> \o PyToStr(environment.d[i][2]))
            ELSE PyStr(environment.d[i][1])]

\* validate_environment_variables, one service, in the environment env
EnvVarsOf(service_name, service_config, env) ==
    LET environment == Get(service_config, K.environment, PyList(<<>>))
        OfEntry(entry) ==
            IF entry.t # "str" THEN <<>>
            ELSE LET refs == EnvRefs(entry.s, 1)
                     undefined == [k \in 1..Len(refs) |->
                        IF Truthy(Getenv(env, refs[k], PyNone)) THEN <<>>
                        ELSE <<Issue("missing_env_var", WARNING,
                                     Text("Service '{}' references undefined environment variable '${{}}'",
                                          <<PyStr(service_name), PyStr(refs[k])>>),
                                     PyNone, PyStr(service_name),
                                     <<<<"variable", PyStr(refs[k])>>, <<"entry", entry>>>>)>>]
                 IN Flatten(undefined)
    IN IF environment.t \notin {"list", "dict"} THEN Found(<<>>)
       ELSE Found(Flatten([k \in 1..Len(EnvEntries(environment)) |-> OfEntry(EnvEntries(environment)[k])]))

validate_environment_variables(config, env) ==
    LET Body(service_name, service_config) == EnvVarsOf(service_name, service_config, env)
    IN ForServices(config, Body)

\* set(d.keys()) of a dict d
KeySet(v) == {v.d[i][1] : i \in 1..Len(v.d)}

\* validate_dependencies, one service
DependenciesOf(service_name, service_config, service_names) ==
    LET depends_on0 == Get(service_config, K.depends_on, PyList(<<>>))
        depends_on == IF depends_on0.t = "dict"
                      THEN PyList([i \in 1..Len(depends_on0.d) |-> PyStr(depends_on0.d[i][1])])
                      ELSE depends_on0
        OfDep(dep) ==
            IF ~Hashable(dep) THEN Raised
            ELSE IF dep.t = "str" /\ dep.s \in service_names THEN Found(<<>>)
            ELSE Found(<<Issue("service_dependency", CRITICAL,
                               Text("Service '{}' depends on non-existent service '{}'",
                                    <<PyStr(service_name), dep>>),
                               PyNone, PyStr(service_name),
                               <<<<"missing_dependency", dep>>,
                                 <<"available_services", PySet(service_names)>>>>)>>)
        links == Get(service_config, K.links, PyList(<<>>))
        OfLink(link) ==
            IF link.t # "str" THEN Raised
            ELSE LET link_service == SplitHead(link.s, <<":">>)
                 IN IF link_service \in service_names THEN Found(<<>>)
                    ELSE Found(<<Issue("service_dependency", CRITICAL,
                                       Text("Service '{}' links to non-existent service '{}'",
                                            <<PyStr(service_name), PyStr(link_service)>>),
                                       PyNone, PyStr(service_name),
                                       <<<<"missing_link", PyStr(link_service)>>>>)>>)
    IN Combine(<<ForItems(depends_on, OfDep), ForItems(links, OfLink)>>)

validate_dependencies(config) ==
    LET Body(service_name, service_config) ==
            DependenciesOf(service_name, service_config, KeySet(config.services))
    IN ForServices(config, Body)

\* validate_volumes, one service
VolumesOf(service_name, service_config, defined_volumes) ==
    LET volumes == Get(service_config, K.volumes, PyList(<<>>))
        OfVolume(volume) ==
            IF volume.t # "str" \/ ~Contains(volume.s, <<":">>) THEN Found(<<>>)
            ELSE LET source == SplitHead(volume.s, <<":">>)
                 IN IF /\ ~StartsWith(source, <<"/">>)
                       /\ ~StartsWith(source, <<".", "/">>)
                       /\ ~StartsWith(source, <<"~">>)
                       /\ source \notin defined_volumes
                    THEN Found(<<Issue("volume_mount", WARNING,
                                       Text("Service '{}' uses undefined volume '{}'",
                                            <<PyStr(service_name), PyStr(source)>>),
                                       PyNone, PyStr(service_name),
                                       <<<<"volume", PyStr(source)>>,
                                         <<"defined_volumes", PySet(defined_volumes)>>,
                                         <<"suggestion", Lit("Define the volume in the top-level volumes section")>>>>)>>)
                    ELSE Found(<<>>)
    IN ForItems(volumes, OfVolume)

validate_volumes(config) ==
    LET Body(service_name, service_config) ==
            VolumesOf(service_name, service_config, KeySet(config.volumes))
    IN ForServices(config, Body)


\* validate_networks, one service
NetworksOf(service_name, service_config, defined_networks) ==
    LET networks0 == Get(service_config, K.networks, PyList(<<>>))
        networks == IF networks0.t = "dict"
                    THEN PyList([i \in 1..Len(networks0.d) |-> PyStr(networks0.d[i][1])])
                    ELSE networks0
        OfNetwork(network) ==
            IF ~Hashable(network) THEN Raised
            ELSE IF network.t = "str" /\ network.s \in defined_networks THEN Found(<<>>)
            ELSE Found(<<Issue("network_config", WARNING,
                               Text("Service '{}' uses undefined network '{}'",
                                    <<PyStr(service_name), network>>),
                               PyNone, PyStr(service_name),
                               <<<<"network", network>>,
                                 <<"defined_networks", PySet(defined_networks)>>>>)>>)
    IN ForItems(networks, OfNetwork)

validate_networks(config) ==
    LET Body(service_name, service_config) ==
            NetworksOf(service_name, service_config, KeySet(config.networks) \cup {S.default})
    IN ForServices(config, Body)

\* validate_resource_limits, one service
ResourceLimitsOf(service_name, service_config) ==
    LET deploy == Get(service_config, K.deploy, PyDict(<<>>))
        resources == Get(deploy, K.resources, PyDict(<<>>))
        limits == Get(resources, K.limits, PyDict(<<>>))
        restart == Get(service_config, K.restart, PyStr(<<>>))
        replicas == Get(deploy, K.replicas, PyInt(1))
        restarts == restart \in {PyStr(S.always), PyStr(S.unless_stopped)}
    IN IF deploy.t # "dict" \/ resources.t # "dict" THEN Raised
       ELSE IF ~restarts /\ replicas.t \notin {"int", "bool"} THEN Raised
       ELSE IF (restarts \/ IntVal(replicas) > 1) /\ ~Truthy(limits)
       THEN Found(<<Issue("resource_limit", WARNING,
                          Text("Production service '{}' has no resource limits", <<PyStr(service_name)>>),
                          PyNone, PyStr(service_name),
                          <<<<"reason", Lit("Services without limits can consume all available resources")>>,
                            <<"restart", restart>>, <<"replicas", replicas>>>>)>>)
       ELSE Found(<<>>)

validate_resource_limits(config) == ForServices(config, ResourceLimitsOf)

\* the steps of a Fix that interpolate nothing
Plain(lines) == [i \in 1..Len(lines) |-> Text(lines[i], <<>>)]

ManualReview ==
    Fix(Text("Manual review required", <<>>), Plain(<<"Review the configuration manually">>),
        PyNone, PyNone)

\* generate_fix answering every issue with the generic fix
ComposeGenerateFixGeneric(issue) == ManualReview

\* DockerComposeValidator.generate_fix
ComposeGenerateFix(issue) ==
    CASE issue.type = "missing_image" ->
           Fix(Text("Add image specification to service '{}'", <<issue.service_name>>),
               <<Text("Add an image directive to the service:", <<>>),
                 Text("  services:", <<>>),
                 Text("    {}:", <<issue.service_name>>),
                 Text("      image: nginx:1.21.0  # Use specific version", <<>>),
                 Text("", <<>>),
                 Text("OR specify a build context:", <<>>),
                 Text("  services:", <<>>),
                 Text("    {}:", <<issue.service_name>>),
                 Text("      build: ./path/to/dockerfile", <<>>)>>,
               PyNone, PyNone)
      [] issue.type = "image_version" ->
           LET image == Detail(issue, "image", PyStr(<<>>))
               base_image == IF Contains(image.s, <<":">>) THEN PyStr(SplitHead(image.s, <<":">>)) ELSE image
           IN Fix(Text("Pin specific version for '{}'", <<issue.service_name>>),
                  <<Text("Replace 'latest' with a specific version:", <<>>),
                    Text("  services:", <<>>),
                    Text("    {}:", <<issue.service_name>>),
                    Text("      image: {}:1.21.0  # Choose appropriate version", <<base_image>>),
                    Text("", <<>>),
                    Text("Check available versions at hub.docker.com", <<>>)>>,
                  PyNone, PyNone)
      [] issue.type = "missing_env_var" ->
           LET var_name == Detail(issue, "variable", PyStr(<<>>))
           IN Fix(Text("Define environment variable '{}'", <<var_name>>),
                  <<Text("Option 1: Create a .env file in the same directory:", <<>>),
                    Text("  {}=your_value_here", <<var_name>>),
                    Text("", <<>>),
                    Text("Option 2: Export in your shell:", <<>>),
                    Text("  export {}=your_value_here", <<var_name>>),
                    Text("", <<>>),
                    Text("Option 3: Use a default value in docker-compose.yml:", <<>>),
                    Text("  environment:", <<>>),
                    Text("    - MY_VAR=${{}:-default_value}", <<var_name>>)>>,
                  PyNone, PyNone)
      [] issue.type = "service_dependency" ->
           LET missing_dep == IF Truthy(Detail(issue, "missing_dependency", PyNone))
                              THEN Detail(issue, "missing_dependency", PyNone)
                              ELSE Detail(issue, "missing_link", PyNone)
           IN Fix(Text("Fix missing service dependency '{}'", <<missing_dep>>),
                  <<Text("Option 1: Remove the dependency on '{}':", <<missing_dep>>),
                    Text("  depends_on:", <<>>),
                    Text("    # Remove '{}'", <<missing_dep>>),
                    Text("", <<>>),
                    Text("Option 2: Add the '{}' service:", <<missing_dep>>),
                    Text("  services:", <<>>),
                    Text("    {}:", <<missing_dep>>),
                    Text("      image: appropriate/image:tag", <<>>)>>,
                  PyNone, PyNone)
      [] issue.type = "volume_mount" ->
           LET volume == Detail(issue, "volume", PyStr(<<>>))
           IN Fix(Text("Define volume '{}'", <<volume>>),
                  <<Text("Add the volume to the top-level volumes section:", <<>>),
                    Text("volumes:", <<>>),
                    Text("  {}:", <<volume>>),
                    Text("    driver: local", <<>>),
                    Text("", <<>>),
                    Text("OR use a bind mount with absolute path:", <<>>),
                    Text("  volumes:", <<>>),
                    Text("    - /absolute/path/to/data:/container/path", <<>>)>>,
                  PyNone, PyNone)
      [] issue.type = "resource_limit" ->
           Fix(Text("Add resource limits to '{}'", <<issue.service_name>>),
               <<Text("Add resource limits using deploy section:", <<>>),
                 Text("  services:", <<>>),
                 Text("    {}:", <<issue.service_name>>),
                 Text("      deploy:", <<>>),
                 Text("        resources:", <<>>),
                 Text("          limits:", <<>>),
                 Text("            cpus: '0.5'", <<>>),
                 Text("            memory: 512M", <<>>),
                 Text("          reservations:", <<>>),
                 Text("            cpus: '0.25'", <<>>),
                 Text("            memory: 256M", <<>>)>>,
               PyNone, PyNone)
      [] OTHER -> ManualReview

\* ------------------------------------------------------------------------
\* parsers/kubernetes_parser.py and validators/k8s_validator.py
\* ------------------------------------------------------------------------

\* KubernetesParser.parse: the documents that are truthy, or the exception raised
\* (the file's content is the list of documents yaml.safe_load_all yields)
K8sParse(file) ==
    IF ~file.exists THEN [raised |-> "FileNotFoundError", resources |-> <<>>]
    ELSE IF file.content = YamlError THEN [raised |-> "YAMLError", resources |-> <<>>]
    ELSE [raised |-> "none",
          resources |-> LET IsTruthy(doc) == Truthy(doc) IN SelectSeq(file.content.l, IsTruthy)]

\* [r for r in resources if r.get('kind') in kinds]
OfKind(resources, kinds) ==
    LET Match(r) == Get(r, K.kind, PyNone) \in {PyStr(k) : k \in kinds}
    IN SelectSeq(resources, Match)
\* some r.get('kind') raises
KindRaises(resources) == \E i \in 1..Len(resources) : resources[i].t # "dict"

MetaName(r) == Get(Get(r, K.metadata, PyDict(<<>>)), K.name, PyStr(S.unknown))
MetaNamespace(r) == Get(Get(r, K.metadata, PyDict(<<>>)), K.namespace, PyStr(S.default))

\* str(v) inside an f-string, for the values a manifest holds in these places
FormatValue(v) == IF v.t = "none" THEN <<"N", "o", "n", "e">> ELSE PyToStr(v)

\* the NodePort loop of validate_services over the first n port entries of one
\* Service: the nodeport_map afterwards, the issues, and whether it raised
RECURSIVE NodePortScan(_, _, _, _, _)
NodePortScan(ports, n, name, namespace, nodeport_map) ==
    IF n = 0 THEN [map |-> nodeport_map, issues |-> <<>>, raised |-> FALSE]
    ELSE LET st == NodePortScan(ports, n - 1, name, namespace, nodeport_map)
             node_port == Get(ports[n], K.nodePort, PyNone)
             key == FormatValue(namespace) \o <<":">> \o FormatValue(node_port)
         IN IF st.raised \/ node_port = Exc THEN [st EXCEPT !.raised = TRUE]
            ELSE IF ~Truthy(node_port) THEN st
            ELSE IF HasKey(st.map, key)
            THEN [st EXCEPT !.issues = Append(@,
                     Issue("port_conflict", CRITICAL,
                           Text("NodePort {} is used by multiple services: '{}' and '{}'",
                                <<node_port, Lookup(st.map, key), name>>),
                           PyNone, name,
                           <<<<"port", node_port>>, <<"namespace", namespace>>,
                             <<"conflicting_service", Lookup(st.map, key)>>>>))]
            ELSE [st EXCEPT !.map = Append(@, <<key, name>>)]

\* the duplicate-port loop of validate_services over the first n port entries
RECURSIVE DupPortScan(_, _, _, _)
DupPortScan(ports, n, name, namespace) ==
    IF n = 0 THEN [seen |-> {}, issues |-> <<>>, raised |-> FALSE]
    ELSE LET st == DupPortScan(ports, n - 1, name, namespace)
             port == Get(ports[n], K.port, PyNone)
             protocol == Get(ports[n], K.protocol, PyStr(S.TCP))
             key == FormatValue(port) \o <<":">> \o FormatValue(protocol)
         IN IF st.raised \/ port = Exc THEN [st EXCEPT !.raised = TRUE]
            ELSE IF key \in st.seen
            THEN [st EXCEPT !.issues = Append(@,
                     Issue("port_conflict", CRITICAL,
                           Text("Service '{}' has duplicate port {}/{}", <<name, port, protocol>>),
                           PyNone, name,
                           <<<<"port", port>>, <<"protocol", protocol>>, <<"namespace", namespace>>>>))]
            ELSE [st EXCEPT !.seen = @ \cup {key}]

\* validate_services over the first n Services
RECURSIVE ServiceScan(_, _)
ServiceScan(services, n) ==
    IF n = 0 THEN [map |-> <<>>, issues |-> <<>>, raised |-> FALSE]
    ELSE LET st == ServiceScan(services, n - 1)
             service == services[n]
             name == MetaName(service)
             namespace == MetaNamespace(service)
             spec == Get(service, K.spec, PyDict(<<>>))
             type == Get(spec, K.type, PyNone)
             ports == Get(spec, K.ports, PyList(<<>>))
             isNodePort == type = PyStr(S.NodePort)
             np == IF isNodePort
                   THEN NodePortScan(Items(ports), Len(Items(ports)), name, namespace, st.map)
                   ELSE [map |-> st.map, issues |-> <<>>, raised |-> FALSE]
             dp == DupPortScan(Items(ports), Len(Items(ports)), name, namespace)
         IN IF st.raised \/ name = Exc \/ namespace = Exc \/ spec.t # "dict" \/ ~Iterable(ports)
            THEN [st EXCEPT !.raised = TRUE]
            ELSE [map |-> np.map,
                  issues |-> st.issues \o np.issues \o dp.issues,
                  raised |-> np.raised \/ dp.raised]

K8sValidateServices(resources) ==
    IF KindRaises(resources) THEN Raised
    ELSE LET services == OfKind(resources, {S.Service})
             st == ServiceScan(services, Len(services))
         IN [issues |-> st.issues, raised |-> st.raised]

\* for r in resources: body, for a resource list whose kinds could all be read
ForResources(resources, Body(_)) == Combine([i \in 1..Len(resources) |-> Body(resources[i])])

\* spec.template.spec.containers of a workload, each level defaulting to empty
TemplateContainers(r) ==
    Get(Get(Get(Get(r, K.spec, PyDict(<<>>)), K.template, PyDict(<<>>)), K.spec, PyDict(<<>>)),
        K.containers, PyList(<<>>))

\* validate_deployments, one Deployment
DeploymentOf(deployment) ==
    LET name == MetaName(deployment)
        namespace == MetaNamespace(deployment)
        containers == TemplateContainers(deployment)
        OfImage(container) ==
            LET image == Get(container, K.image, PyStr(<<>>))
            IN IF image.t # "str" THEN Raised
               ELSE IF EndsWith(image.s, S.latest) \/ ~Contains(image.s, <<":">>)
               THEN Found(<<Issue("image_version", WARNING,
                                  Text("Deployment '{}' uses 'latest' tag for container '{}'",
                                       <<name, Get(container, K.name, PyNone)>>),
                                  PyNone, name,
                                  <<<<"container", Get(container, K.name, PyNone)>>,
                                    <<"image", image>>, <<"namespace", namespace>>,
                                    <<"reason", Lit("Using :latest can lead to unpredictable deployments")>>>>)>>)
               ELSE Found(<<>>)
        OfLimits(container) ==
            LET resources == Get(container, K.resources, PyDict(<<>>))
            IN IF resources.t # "dict" THEN Raised
               ELSE IF ~Truthy(Get(resources, K.limits, PyNone))
               THEN Found(<<Issue("resource_limits", WARNING,
                                  Text("Deployment '{}' container '{}' has no resource limits",
                                       <<name, Get(container, K.name, PyNone)>>),
                                  PyNone, name,
                                  <<<<"container", Get(container, K.name, PyNone)>>,
                                    <<"namespace", namespace>>,
                                    <<"reason", Lit("Missing limits can cause resource exhaustion")>>>>)>>)
               ELSE Found(<<>>)
    IN IF name = Exc \/ namespace = Exc \/ containers = Exc THEN Raised
       ELSE Combine(<<ForItems(containers, OfImage), ForItems(containers, OfLimits)>>)

K8sValidateDeployments(resources) ==
    IF KindRaises(resources) THEN Raised
    ELSE ForResources(OfKind(resources, {S.Deployment}), DeploymentOf)

\* validate_security, one workload
SecurityOf(resource) ==
    LET name == MetaName(resource)
        namespace == MetaNamespace(resource)
        kind == Get(resource, K.kind, PyNone)
        containers == IF kind = PyStr(S.Pod)
                      THEN Get(Get(resource, K.spec, PyDict(<<>>)), K.containers, PyList(<<>>))
                      ELSE TemplateContainers(resource)
        OfContainer(container) ==
            LET container_name == Get(container, K.name, PyStr(S.unknown))
                security_context == Get(container, K.securityContext, PyDict(<<>>))
                run_as_user == Get(security_context, K.runAsUser, PyNone)
                privileged ==
                    IF Truthy(Get(security_context, K.privileged, PyNone))
                    THEN <<Issue("security_issue", CRITICAL,
                                 Text("{} '{}' container '{}' runs in privileged mode",
                                      <<kind, name, container_name>>),
                                 PyNone, name,
                                 <<<<"container", container_name>>, <<"namespace", namespace>>,
                                   <<"reason", Lit("Privileged containers have access to all devices and can compromise security")>>>>)>>
                    ELSE <<>>
                root ==
                    IF /\ ~Truthy(Get(security_context, K.runAsNonRoot, PyNone))
                       /\ \/ run_as_user = PyNone
                          \/ (run_as_user.t \in {"int", "bool"} /\ IntVal(run_as_user) = 0)
                    THEN <<Issue("security_issue", WARNING,
                                 Text("{} '{}' container '{}' may run as root",
                                      <<kind, name, container_name>>),
                                 PyNone, name,
                                 <<<<"container", container_name>>, <<"namespace", namespace>>,
                                   <<"reason", Lit("Running as root increases security risk")>>>>)>>
                    ELSE <<>>
            IN IF container.t # "dict" \/ security_context.t # "dict" THEN Raised
               ELSE Found(privileged \o root)
    IN IF name = Exc \/ namespace = Exc \/ containers = Exc THEN Raised
       ELSE ForItems(containers, OfContainer)

K8sValidateSecurity(resources) ==
    IF KindRaises(resources) THEN Raised
    ELSE ForResources(OfKind(resources, {S.Deployment, S.Pod, S.StatefulSet, S.DaemonSet}), SecurityOf)

\* validate_probes, one Deployment or StatefulSet
ProbesOf(deployment) ==
    LET name == MetaName(deployment)
        namespace == MetaNamespace(deployment)
        containers == TemplateContainers(deployment)
        Missing(container, key, fmt, reason) ==
            IF In(container, key) THEN <<>>
            ELSE <<Issue("health_check", WARNING,
                         Text(fmt, <<name, Get(container, K.name, PyStr(S.unknown))>>),
                         PyNone, name,
                         <<<<"container", Get(container, K.name, PyStr(S.unknown))>>,
                           <<"namespace", namespace>>, <<"reason", Lit(reason)>>>>)>>
        OfContainer(container) ==
            IF container.t # "dict" THEN Raised
            ELSE Found(Missing(container, K.livenessProbe,
                               "Deployment '{}' container '{}' has no liveness probe",
                               "Liveness probes help Kubernetes restart unhealthy containers")
                       \o Missing(container, K.readinessProbe,
                                  "Deployment '{}' container '{}' has no readiness probe",
                                  "Readiness probes ensure traffic only goes to ready pods"))
    IN IF name = Exc \/ namespace = Exc \/ containers = Exc THEN Raised
       ELSE ForItems(containers, OfContainer)

K8sValidateProbes(resources) ==
    IF KindRaises(resources) THEN Raised
    ELSE ForResources(OfKind(resources, {S.Deployment, S.StatefulSet}), ProbesOf)

\* validate_labels, one resource (the manifests drawn hold mappings, or nothing,
\* for matchLabels and labels)
LabelsOf(resource) ==
    LET name == MetaName(resource)
        namespace == MetaNamespace(resource)
        spec == Get(resource, K.spec, PyDict(<<>>))
        selector == Get(Get(spec, K.selector, PyDict(<<>>)), K.matchLabels, PyDict(<<>>))
        template_labels ==
            Get(Get(Get(spec, K.template, PyDict(<<>>)), K.metadata, PyDict(<<>>)), K.labels, PyDict(<<>>))
        mismatch == \E i \in 1..Len(selector.d) :
                        \/ ~HasKey(template_labels.d, selector.d[i][1])
                        \/ Lookup(template_labels.d, selector.d[i][1]) # selector.d[i][2]
    IN IF Get(resource, K.kind, PyNone) \notin {PyStr(S.Deployment), PyStr(S.StatefulSet), PyStr(S.DaemonSet)}
       THEN Found(<<>>)
       ELSE IF name = Exc \/ namespace = Exc \/ selector.t # "dict" \/ template_labels.t # "dict"
       THEN Raised
       ELSE IF mismatch
       THEN Found(<<Issue("label_mismatch", CRITICAL,
                          Text("{} '{}' selector doesn't match pod template labels",
                               <<Get(resource, K.kind, PyNone), name>>),
                          PyNone, name,
                          <<<<"namespace", namespace>>, <<"selector", selector>>,
                            <<"template_labels", template_labels>>,
                            <<"reason", Lit("Mismatched labels will prevent the deployment from managing pods")>>>>)>>)
       ELSE Found(<<>>)

K8sValidateLabels(resources) ==
    IF KindRaises(resources) THEN Raised ELSE ForResources(resources, LabelsOf)

\* KubernetesValidator.generate_fix: the Fix, or Exc when it raises
K8sGenerateFix(issue) ==
    CASE issue.type = "port_conflict" ->
           LET port == Detail(issue, "port", PyNone)
               namespace == Detail(issue, "namespace", PyStr(S.default))
           IN IF port.t \notin {"int", "bool"} THEN Exc
              ELSE Fix(Text("Fix NodePort {} conflict in namespace '{}'", <<port, namespace>>),
                       <<Text("Option 1: Change one service's nodePort to {}", <<PyInt(IntVal(port) + 1)>>),
                         Text("  spec:", <<>>),
                         Text("    ports:", <<>>),
                         Text("    - nodePort: {}", <<PyInt(IntVal(port) + 1)>>),
                         Text("", <<>>),
                         Text("Option 2: Remove nodePort specification to let Kubernetes assign automatically", <<>>),
                         Text("  spec:", <<>>),
                         Text("    ports:", <<>>),
                         Text("    - port: 8080", <<>>),
                         Text("      targetPort: 80", <<>>)>>,
                       PyNone, PyNone)
      [] issue.type = "image_version" ->
           LET container == Detail(issue, "container", PyNone)
               image == Detail(issue, "image", PyStr(<<>>))
           IN Fix(Text("Pin specific version for {}", <<container>>),
                  <<Text("Replace 'latest' with specific version tag:", <<>>),
                    Text("  containers:", <<>>),
                    Text("  - name: {}", <<container>>),
                    Text("    image: {}:1.21.0  # Use specific version", <<PyStr(SplitHead(image.s, <<":">>))>>),
                    Text("", <<>>),
                    Text("Check available versions at: https://hub.docker.com", <<>>)>>,
                  PyNone, PyNone)
      [] issue.type = "resource_limits" ->
           LET container == Detail(issue, "container", PyNone)
           IN Fix(Text("Add resource limits for {}", <<container>>),
                  <<Text("Add resource limits to prevent resource exhaustion:", <<>>),
                    Text("  containers:", <<>>),
                    Text("  - name: {}", <<container>>),
                    Text("    resources:", <<>>),
                    Text("      limits:", <<>>),
                    Text("        memory: \"256Mi\"", <<>>),
                    Text("        cpu: \"500m\"", <<>>),
                    Text("      requests:", <<>>),
                    Text("        memory: \"128Mi\"", <<>>),
                    Text("        cpu: \"250m\"", <<>>)>>,
                  PyNone, PyNone)
      [] OTHER -> ManualReview

\* ------------------------------------------------------------------------
\* ai/providers.py
\* ------------------------------------------------------------------------

\* GroqProvider().is_available() / GeminiProvider().is_available() in env

\* get_ai_provider trying Gemini first
get_ai_provider_gemini_first(env) ==
    IF Truthy(Getenv(env, K.GEMINI_API_KEY, PyNone)) \/ Truthy(Getenv(env, K.GOOGLE_API_KEY, PyNone))
    THEN "gemini"
    ELSE IF Truthy(Getenv(env, K.GROQ_API_KEY, PyNone)) THEN "groq"
    ELSE "None"

\* get_ai_provider
get_ai_provider(env) ==
    IF Truthy(Getenv(env, K.GROQ_API_KEY, PyNone)) THEN "groq"
    ELSE IF Truthy(Getenv(env, K.GEMINI_API_KEY, PyNone)) \/ Truthy(Getenv(env, K.GOOGLE_API_KEY, PyNone))
    THEN "gemini"
    ELSE "None"

\* what one provider call meets: the SDK missing, the API call raising, or a
\* response whose parse holds no step or some steps
AiReplies == {"import_error", "api_error", "no_steps", "steps"}

\* text written by the provider in answer to error_message
AiText(part, error_message) == [t |-> "ai", part |-> part, about |-> error_message]

\* analyze_error: the dict it returns
analyze_error(reply, error_message) ==
    CASE reply = "import_error" -> [error |-> TRUE, fix_steps |-> <<>>,
                                    explanation |-> PyNone, root_cause |-> PyNone]
      [] reply = "api_error" -> [error |-> TRUE, fix_steps |-> <<>>,
                                 explanation |-> PyNone, root_cause |-> PyNone]
      [] reply = "no_steps" -> [error |-> FALSE, fix_steps |-> <<>>,
                                explanation |-> AiText("explanation", error_message),
                                root_cause |-> AiText("root_cause", error_message)]
      [] OTHER -> [error |-> FALSE, fix_steps |-> <<AiText("step", error_message)>>,
                   explanation |-> AiText("explanation", error_message),
                   root_cause |-> AiText("root_cause", error_message)]

\* ------------------------------------------------------------------------
\* the inputs
\* ------------------------------------------------------------------------
\* the most services a generated Compose file declares
MaxServices == 2

\* the texts of the inputs: names, values, images, references, mappings
V ==
    [A |-> <<"A">>,
     v |-> <<"v">>,
     key |-> <<"k">>,
     ghost |-> <<"g", "h", "o", "s", "t">>,
     img_untagged |-> <<"n", "g">>,
     img_pinned |-> <<"n", "g", ":", "1">>,
     img_latest |-> <<"n", "g", ":", "l", "a", "t", "e", "s", "t">>,
     img_registry |-> <<"r", ":", "5", "/", "n", "g">>,
     ref_A_default |-> <<"$", "{", "A", ":", "-", "n", "g", ":", "1", "}">>,
     entry_ref_A |-> <<"K", "=", "$", "{", "A", "}">>,
     ref_A |-> <<"$", "{", "A", "}">>,
     port_8080_80 |-> <<"8", "0", "8", "0", ":", "8", "0">>,
     port_3000 |-> <<"3", "0", "0", "0", ":", "3", "0", "0", "0">>,
     vol_data |-> <<"d", "a", "t", "a", ":", "/", "x">>,
     db |-> <<"d", "b">>,
     vol_db |-> <<"d", "b", ":", "/", "x">>,
     vol_abs |-> <<"/", "a", ":", "/", "x">>,
     vol_dot |-> <<".", "/", "a", ":", "/", "x">>,
     vol_up |-> <<".", ".", "/", "a", ":", "/", "x">>,
     vol_home |-> <<"~", "/", "a", ":", "/", "x">>,
     net_back |-> <<"b", "a", "c", "k">>,
     s1 |-> <<"s", "1">>,
     s2 |-> <<"s", "2">>,
     ns_a |-> <<"a">>,
     ns_b |-> <<"b">>,
     p30080 |-> <<"3", "0", "0", "8", "0">>,
     c |-> <<"c">>]
\* the process environments: nothing set; A and both provider keys set; the
\* Gemini key alone; A and the Groq key set to the empty string and the Google key
Environments ==
    {<<>>,
     <<<<V.A, V.v>>, <<K.GROQ_API_KEY, V.key>>, <<K.GEMINI_API_KEY, V.key>>>>,
     <<<<K.GEMINI_API_KEY, V.key>>>>,
     <<<<V.A, <<>>>>, <<K.GROQ_API_KEY, <<>>>>, <<K.GOOGLE_API_KEY, V.key>>>>}

ServiceName(i) == <<"w", "e", "b", Digits[i + 1]>>

Pinned == <<K.image, PyStr(V.img_pinned)>>
\* the port mappings of the port family: the short str form, a bare int, and
\* another port
PortShapes ==
    {PyDict(<<Pinned, <<K.ports, PyList(<<pm>>)>>>>) :
     pm \in {PyStr(V.port_8080_80), PyInt(8080), PyStr(V.port_3000)}}
\* one service of each other kind: clean, untagged, tagged latest, untagged
\* behind a registry host with a port, without image, with
\* environment references, with a default, with an environment entry that is
\* a reference and nothing else, with a dangling dependency, with a
\* depends_on mapping and with links that name a missing and a declared service, with
\* a port mapped twice, no tag and a dangling dependency at once, with
\* undeclared volume and network and a restart policy, with ports that are no
\* list, with ports whose host part is no number, that have no container part,
\* and in the long form without published, with a port in the long form, and one that is no mapping
GeneralShapes ==
    {PyDict(<<Pinned>>),
     PyDict(<<<<K.image, PyStr(V.img_untagged)>>>>),
     PyDict(<<<<K.image, PyStr(V.img_latest)>>>>),
     PyDict(<<<<K.image, PyStr(V.img_registry)>>>>),
     PyDict(<<<<K.ports, PyList(<<PyStr(V.port_8080_80)>>)>>>>),
     PyDict(<<<<K.image, PyStr(V.ref_A)>>, <<K.environment, PyList(<<PyStr(V.entry_ref_A)>>)>>>>),
     PyDict(<<<<K.image, PyStr(V.ref_A_default)>>>>),
     PyDict(<<Pinned, <<K.environment, PyList(<<PyStr(V.ref_A)>>)>>>>),
     PyDict(<<Pinned, <<K.depends_on, PyList(<<PyStr(V.ghost)>>)>>>>),
     PyDict(<<Pinned, <<K.depends_on, PyDict(<<<<V.ghost, PyDict(<<>>)>>, <<ServiceName(1), PyDict(<<>>)>>>>)>>>>),
     PyDict(<<Pinned, <<K.depends_on, PyList(<<PyStr(ServiceName(1))>>)>>,
              <<K.links, PyList(<<PyStr(V.ghost \o <<":">> \o V.v), PyStr(ServiceName(1) \o <<":">> \o V.v)>>)>>>>),
     PyDict(<<<<K.image, PyStr(V.img_untagged)>>,
              <<K.ports, PyList(<<PyStr(V.port_8080_80), PyInt(8080)>>)>>,
              <<K.depends_on, PyList(<<PyStr(V.ghost)>>)>>>>),
     PyDict(<<Pinned, <<K.volumes, PyList(<<PyStr(V.vol_data)>>)>>,
              <<K.networks, PyList(<<PyStr(V.net_back)>>)>>, <<K.restart, PyStr(S.always)>>>>),
     PyDict(<<Pinned, <<K.ports, PyInt(8080)>>>>),
     PyDict(<<<<K.image, PyStr(V.img_untagged)>>, <<K.links, PyList(<<PyInt(8080)>>)>>>>),
     PyDict(<<Pinned, <<K.ports, PyList(<<PyStr(V.net_back \o <<":">> \o <<"8", "0">>),
                                          PyStr(<<"8", "0", "8", "0">>),
                                          PyDict(<<<<K.target, PyInt(8080)>>>>)>>)>>>>),
     PyDict(<<Pinned, <<K.ports, PyList(<<PyDict(<<<<K.published, PyInt(8080)>>,
                                                  <<K.target, PyInt(80)>>>>)>>)>>>>),
     PyStr(V.img_untagged)}

\* the services mappings: one service of any shape, or up to MaxServices services
\* of the port family, named web1, web2, ... in order
ServiceLists ==
    {<<s>> : s \in GeneralShapes}
    \cup UNION {[1..n -> PortShapes] : n \in 1..MaxServices}
    \cup {<<PyDict(<<<<K.ports, PyList(<<PyStr(V.port_8080_80)>>)>>>>),
            PyDict(<<Pinned, <<K.ports, PyList(<<PyStr(V.port_8080_80), PyInt(8080)>>)>>>>)>>}
ServicesOf(shapes) == PyDict([i \in 1..Len(shapes) |-> <<ServiceName(i), shapes[i]>>])

\* the Compose files: absent, not YAML, empty, a list, a mapping without
\* services, services that are a list, the mappings with services, and one
\* with a declared volume and a service that mounts volumes and paths
ComposeFiles ==
    {AbsentFile, FileOf(YamlError), FileOf(PyNone), FileOf(PyList(<<>>)), FileOf(PyDict(<<>>)),
     FileOf(PyDict(<<<<K.services, PyList(<<>>)>>>>))}
    \cup {FileOf(PyDict(<<<<K.services, ServicesOf(shapes)>>>>)) : shapes \in ServiceLists}
    \cup {FileOf(PyDict(<<<<K.services,
                              ServicesOf(<<PyDict(<<Pinned,
                                                    <<K.volumes,
                                                      PyList(<<PyStr(V.vol_data), PyStr(V.vol_db),
                                                               PyStr(V.vol_abs), PyStr(V.vol_dot),
                                                               PyStr(V.vol_up), PyStr(V.vol_home)>>)>>>>)>>)>>,
                            <<K.volumes, PyDict(<<<<V.db, PyDict(<<>>)>>>>)>>>>))}

\* the documents of the Kubernetes manifests
Meta(name, namespace) == <<K.metadata, PyDict(<<<<K.name, PyStr(name)>>, <<K.namespace, PyStr(namespace)>>>>)>>
KindOf(kind) == <<K.kind, PyStr(kind)>>

\* a NodePort Service with one port entry whose nodePort is node_port
NodePortService(name, namespace, node_port) ==
    PyDict(<<KindOf(S.Service), Meta(name, namespace),
             <<K.spec, PyDict(<<<<K.type, PyStr(S.NodePort)>>,
                                <<K.ports, PyList(<<PyDict(<<<<K.port, PyInt(80)>>,
                                                             <<K.nodePort, node_port>>>>)>>)>>>>)>>>>)
\* a Service with the given port entries
PortsService(name, entries) ==
    PyDict(<<KindOf(S.Service), Meta(name, V.ns_a), <<K.spec, PyDict(<<<<K.ports, PyList(entries)>>>>)>>>>)
\* a workload of the given kind with one container
Workload(kind, container, selector, labels) ==
    PyDict(<<KindOf(kind), Meta(V.s1, V.ns_a),
             <<K.spec, PyDict(<<<<K.selector, PyDict(<<<<K.matchLabels, PyDict(<<<<K.app, PyStr(selector)>>>>)>>>>)>>,
                                <<K.template,
                                  PyDict(<<<<K.metadata, PyDict(<<<<K.labels, PyDict(<<<<K.app, PyStr(labels)>>>>)>>>>)>>,
                                           <<K.spec, PyDict(<<<<K.containers, PyList(<<container>>)>>>>)>>>>)>>>>)>>>>)
BareContainer == PyDict(<<<<K.name, PyStr(V.c)>>, <<K.image, PyStr(V.img_untagged)>>>>)
GoodContainer ==
    PyDict(<<<<K.name, PyStr(V.c)>>, <<K.image, PyStr(V.img_pinned)>>,
             <<K.resources, PyDict(<<<<K.limits, PyDict(<<<<K.app, PyStr(V.v)>>>>)>>>>)>>,
             <<K.securityContext, PyDict(<<<<K.runAsNonRoot, PyBool(TRUE)>>>>)>>,
             <<K.livenessProbe, PyDict(<<>>)>>, <<K.readinessProbe, PyDict(<<>>)>>>>)
PrivilegedPod ==
    PyDict(<<KindOf(S.Pod), Meta(V.s1, V.ns_a),
             <<K.spec, PyDict(<<<<K.containers,
                                  PyList(<<PyDict(<<<<K.name, PyStr(V.c)>>,
                                                    <<K.securityContext,
                                                      PyDict(<<<<K.privileged, PyBool(TRUE)>>,
                                                               <<K.runAsUser, PyInt(1000)>>>>)>>>>)>>)>>>>)>>>>)

\* the Kubernetes files: absent, not YAML, without documents, with empty
\* documents only, and the manifests: Services that collide on a NodePort (given as an int, or as a
\* str), that do not (another namespace), a Service with a duplicate port, one
\* NodePort Service whose two port entries have the same nodePort, one
\* whose two port entries lack port, workloads with and without findings, a
\* document that is no mapping, an empty document before a clean one
K8sFiles ==
    {AbsentFile, FileOf(YamlError), FileOf(PyList(<<>>)), FileOf(PyList(<<PyNone>>))}
    \cup {FileOf(PyList(docs)) : docs \in
    {<<NodePortService(V.s1, V.ns_a, PyInt(30080))>>,
     <<NodePortService(V.s1, V.ns_a, PyInt(30080)), NodePortService(V.s2, V.ns_a, PyInt(30080))>>,
     <<NodePortService(V.s1, V.ns_a, PyInt(30080)), NodePortService(V.s2, V.ns_b, PyInt(30080))>>,
     <<NodePortService(V.s1, V.ns_a, PyInt(30080)), NodePortService(V.s2, V.ns_a, PyStr(V.p30080))>>,
     <<PortsService(V.s1, <<PyDict(<<<<K.port, PyInt(80)>>>>), PyDict(<<<<K.port, PyInt(80)>>>>)>>)>>,
     <<PyDict(<<KindOf(S.Service), Meta(V.s1, V.ns_a),
                <<K.spec, PyDict(<<<<K.type, PyStr(S.NodePort)>>,
                                   <<K.ports, PyList(<<PyDict(<<<<K.port, PyInt(80)>>,
                                                                <<K.nodePort, PyInt(30080)>>>>),
                                                       PyDict(<<<<K.port, PyInt(443)>>,
                                                                <<K.nodePort, PyInt(30080)>>>>)>>)>>>>)>>>>)>>,
     <<PortsService(V.s1, <<PyDict(<<<<K.name, PyStr(V.ns_a)>>>>), PyDict(<<<<K.name, PyStr(V.ns_b)>>>>)>>)>>,
     <<Workload(S.Deployment, BareContainer, V.v, V.c)>>,
     <<Workload(S.Deployment, GoodContainer, V.v, V.v)>>,
     <<Workload(S.StatefulSet, BareContainer, V.v, V.v)>>,
     <<Workload(S.DaemonSet, GoodContainer, V.v, V.c),
       NodePortService(V.s1, V.ns_a, PyInt(30080)), NodePortService(V.s2, V.ns_a, PyInt(30080))>>,
     <<PrivilegedPod>>,
     <<PyStr(V.v)>>,
     <<PyNone, Workload(S.Deployment, GoodContainer, V.v, V.v)>>}}

\* ------------------------------------------------------------------------
\* cli.py: the analysis entry points
\* ------------------------------------------------------------------------
\* what get_config() meets in ~/.checkdk/config.yaml: a file it cannot load, or
\* a configuration with ai.enabled false or true ("unread" when it is not called)
ConfigOutcomes == {"raises", "disabled", "enabled"}

\* the ai_provider the entry point ends up with ("None" for None)
SelectProvider(use_ai, cfg, env) ==
    IF use_ai /\ cfg = "enabled" THEN get_ai_provider(env) ELSE "None"

\* the answers of the provider repeat after MaxAiReplies calls
MaxAiReplies == 2

\* success computed as "no issue at all"
NoIssueAtAll(all_issues) == Len(all_issues) = 0

\* len([i for i in all_issues if i.severity == Severity.CRITICAL]) == 0
NoCritical(all_issues) ==
    Cardinality({i \in 1..Len(all_issues) : all_issues[i].severity = CRITICAL}) = 0

\* an ai_result accepted whenever it is no error
AiAcceptedWithoutSteps(ai_result) == ~ai_result.error
\* the Fix built from an accepted ai_result
AiFix(ai_result) ==
    Fix(ai_result.explanation, ai_result.fix_steps, ai_result.explanation, ai_result.root_cause)
\* 'error' not in ai_result and ai_result.get('fix_steps')
AiAccepted(ai_result) == ~ai_result.error /\ Len(ai_result.fix_steps) > 0

\* the rule-based fix of one issue, or Exc when generate_fix raises
TemplateFix(platform, issue) ==
    IF platform = "kubernetes" THEN K8sGenerateFix(issue)
    ELSE IF issue.type = "port_conflict" THEN PortGenerateFix(issue)
    ELSE ComposeGenerateFix(issue)

\* the provider answering whatever the severity of the issue
AsksAny(issue, ai_provider) == ai_provider # "None"
\* if issue.severity == Severity.CRITICAL and ai_provider
Asks(issue, ai_provider) == issue.severity = CRITICAL /\ ai_provider # "None"

\* the loop for issue in all_issues, after its first n iterations: the fixes, the
\* number of provider calls made, the calls themselves (the index of the issue,
\* the issue, the ai_result returned), and whether generate_fix raised
RECURSIVE GenerateFixes(_, _, _, _, _)
GenerateFixes(platform, all_issues, ai_provider, replies, n) ==
    IF n = 0 THEN [fixes |-> <<>>, calls |-> 0, asked |-> <<>>, raised |-> FALSE]
    ELSE The({
           LET asks == Asks(issue, ai_provider)
               calls == st.calls + (IF asks THEN 1 ELSE 0)
               ai_result == analyze_error(replies[(st.calls % Len(replies)) + 1], issue.message)
               asked == IF asks
                        THEN Append(st.asked, [n |-> n, issue |-> issue, ai_result |-> ai_result])
                        ELSE st.asked
           IN IF st.raised THEN st
              ELSE IF asks /\ AiAccepted(ai_result)
              THEN [fixes |-> Append(st.fixes, AiFix(ai_result)),
                    calls |-> calls, asked |-> asked, raised |-> FALSE]
              ELSE The({IF fix = Exc
                        THEN [fixes |-> st.fixes, calls |-> calls, asked |-> asked, raised |-> TRUE]
                        ELSE [fixes |-> Append(st.fixes, fix), calls |-> calls, asked |-> asked,
                              raised |-> FALSE] :
                        fix \in {TemplateFix(platform, issue)}}) :
           <<st, issue>> \in
               {<<GenerateFixes(platform, all_issues, ai_provider, replies, n - 1), all_issues[n]>>}})

\* the value of result before an entry point returned
NoResult == [t |-> "unset"]

\* analyze_docker_compose up to the end of the validators: what the parser
\* returned, all_issues, and whether a validator raised
ComposeIssues(file, env, probe) ==
    The({[parsed |-> parsed, all_issues |-> found.issues, raised |-> found.raised] :
         <<parsed, found>> \in
             {<<p, Combine(<<Found(p.issues),
                             PortValidate(p.config, probe),
                             validate_images(p.config),
                             validate_environment_variables(p.config, env),
                             validate_dependencies(p.config),
                             validate_volumes(p.config),
                             validate_networks(p.config),
                             validate_resource_limits(p.config)>>)>> :
              p \in {parse(file, env, <<>>)}}})

\* analyze_docker_compose from "Generate fixes" on: the AnalysisResult returned,
\* or the exception that leaves the entry point
ComposeResult(found, ai_provider, replies) ==
    The({IF found.raised THEN [raised |-> TRUE, result |-> NoResult, asked |-> <<>>]
         ELSE IF generated.raised
         THEN [raised |-> TRUE, result |-> NoResult, asked |-> generated.asked]
         ELSE [raised |-> FALSE,
               result |-> AnalysisResult(NoCritical(found.all_issues), found.all_issues,
                                         generated.fixes),
               asked |-> generated.asked] :
         generated \in {GenerateFixes("docker-compose", found.all_issues, ai_provider, replies,
                                      Len(found.all_issues))}})

\* the AnalysisResult of the early returns and of the exception handlers
FailedAnalysis(message) ==
    [success |-> FALSE,
     issues |-> <<Issue("invalid_yaml", CRITICAL, Text(message, <<>>), FilePath, PyNone, <<>>)>>,
     fixes |-> <<>>, warnings |-> <<>>]

\* analyze_kubernetes_manifest up to the end of the validators
K8sIssues(resources) ==
    Combine(<<K8sValidateServices(resources),
              K8sValidateDeployments(resources),
              K8sValidateSecurity(resources),
              K8sValidateProbes(resources),
              K8sValidateLabels(resources)>>)

\* analyze_kubernetes_manifest once KubernetesParser.parse returned or raised:
\* the AnalysisResult returned
K8sResult(loaded, ai_provider, replies) ==
    IF loaded.raised = "FileNotFoundError" THEN FailedAnalysis("File not found: {file_path}")
    ELSE IF loaded.raised = "YAMLError" THEN FailedAnalysis("Invalid YAML: {e}")
    ELSE IF Len(loaded.resources) = 0
    THEN FailedAnalysis("No valid Kubernetes resources found in file")
    ELSE The({IF found.raised \/ generated.raised THEN FailedAnalysis("Analysis failed: {e}")
              ELSE AnalysisResult(NoCritical(found.issues), found.issues, generated.fixes) :
              <<found, generated>> \in
                  {<<f, GenerateFixes("kubernetes", f.issues, ai_provider, replies, Len(f.issues))>> :
                   f \in {K8sIssues(loaded.resources)}}})

\* the provider calls analyze_kubernetes_manifest made by the time it returns
K8sAsked(loaded, ai_provider, replies) ==
    IF loaded.raised # "none" \/ Len(loaded.resources) = 0 THEN <<>>
    ELSE The({IF found.raised THEN <<>>
              ELSE GenerateFixes("kubernetes", found.issues, ai_provider, replies,
                                 Len(found.issues)).asked :
              found \in {K8sIssues(loaded.resources)}})

\* the answers the live probes can give while config is validated
Probes(config) ==
    LET events == PortEvents(config)
        quiet == [i \in 1..Len(events) |-> "free"]
    IN [1..PortScan(events, quiet, Len(events)).probes ->
           {"free", "used_noproc", "used_unknown", "used_named"}]

\* the answers the provider can give while all_issues get their fixes
Replies(all_issues, ai_provider) ==
    LET critical == Cardinality({i \in 1..Len(all_issues) : all_issues[i].severity = CRITICAL})
        calls == IF ai_provider = "None" THEN 0
                 ELSE IF critical < MaxAiReplies THEN critical ELSE MaxAiReplies
    IN IF calls = 0 THEN {<<"api_error">>} ELSE [1..calls -> AiReplies]

\* ------------------------------------------------------------------------
\* executors/docker_executor.py and the wrappers of cli.py
\* ------------------------------------------------------------------------
Upper == <<"A", "B", "C", "D", "E", "F", "G", "H", "I", "J", "K", "L", "M",
           "N", "O", "P", "Q", "R", "S", "T", "U", "V", "W", "X", "Y", "Z">>
Lower == <<"a", "b", "c", "d", "e", "f", "g", "h", "i", "j", "k", "l", "m",
           "n", "o", "p", "q", "r", "s", "t", "u", "v", "w", "x", "y", "z">>
\* str.lower()
lower(s) ==
    [i \in 1..Len(s) |-> IF \E k \in 1..26 : Upper[k] = s[i]
                         THEN Lower[CHOOSE k \in 1..26 : Upper[k] = s[i]]
                         ELSE s[i]]
\* str.strip(), of whitespace
RECURSIVE strip(_)
strip(s) ==
    IF s = <<>> THEN s
    ELSE IF Head(s) \in {" ", "\n", "\t"} THEN strip(Tail(s))
    ELSE IF s[Len(s)] \in {" ", "\n", "\t"} THEN strip(SubSeq(s, 1, Len(s) - 1))
    ELSE s

\* what console.input meets at the prompt: a line typed, or Ctrl-C
Typed(line) == [t |-> "line", s |-> line]
Responses ==
    {Typed(<<"y">>), Typed(<<"Y", "e", "s">>), Typed(<<" ", "Y", " ">>), Typed(<<"n">>),
     Typed(<<>>), Typed(<<"y", "e", "p">>), [t |-> "KeyboardInterrupt"]}
\* response not in ['y', 'yes'], negated
Affirmative(response) ==
    response.t = "line" /\ strip(lower(response.s)) \in {<<"y">>, <<"y", "e", "s">>}

\* what becomes of the child process: it exits with a return code, the binary is
\* not found, starting it fails otherwise, or it is interrupted
NoChild == [kind |-> "none"]
ChildOutcomes ==
    {[kind |-> "exit", rc |-> 0], [kind |-> "exit", rc |-> 1], [kind |-> "exit", rc |-> 2],
     [kind |-> "not_found"], [kind |-> "os_error"], [kind |-> "interrupt"]}

\* how a handler ends: sys.exit(code), or an exception that reaches main
Exit(code) == [raised |-> "none", code |-> code]
Raise(exception) == [raised |-> exception, code |-> 0]

\* DockerExecutor.execute without the prompt on warnings
execute_unprompted(analysis_result, force, response, child) ==
    IF has_critical_errors(analysis_result) /\ ~force
    THEN [prompted |-> FALSE, invoked |-> FALSE, end |-> Exit(1)]
    ELSE [prompted |-> FALSE, invoked |-> TRUE,
          end |-> CASE child.kind = "exit" -> Exit(child.rc)
                    [] child.kind = "not_found" -> Exit(127)
                    [] child.kind = "os_error" -> Exit(1)
                    [] OTHER -> Raise("KeyboardInterrupt")]

\* DockerExecutor.execute: whether it prompted, whether it started the command,
\* and the code it returns or the exception that leaves it
execute(analysis_result, force, response, child) ==
    IF has_critical_errors(analysis_result) /\ ~force
    THEN [prompted |-> FALSE, invoked |-> FALSE, end |-> Exit(1)]
    ELSE IF has_warnings(analysis_result) /\ ~force /\ response.t = "KeyboardInterrupt"
    THEN [prompted |-> TRUE, invoked |-> FALSE, end |-> Raise("KeyboardInterrupt")]
    ELSE IF has_warnings(analysis_result) /\ ~force /\ ~Affirmative(response)
    THEN [prompted |-> TRUE, invoked |-> FALSE, end |-> Exit(0)]
    ELSE [prompted |-> has_warnings(analysis_result) /\ ~force,
          invoked |-> TRUE,
          end |-> CASE child.kind = "exit" -> Exit(child.rc)
                    [] child.kind = "not_found" -> Exit(127)
                    [] child.kind = "os_error" -> Exit(1)
                    [] OTHER -> Raise("KeyboardInterrupt")]

\* subprocess.call(['kubectl'] + list(command))
call(child) ==
    [prompted |-> FALSE, invoked |-> TRUE,
     end |-> CASE child.kind = "exit" -> Exit(child.rc)
               [] child.kind = "not_found" -> Raise("FileNotFoundError")
               [] child.kind = "os_error" -> Raise("OSError")
               [] OTHER -> Raise("KeyboardInterrupt")]

\* main: the exit code of the process
main(end) ==
    IF end.raised = "none" THEN end.code
    ELSE IF end.raised = "KeyboardInterrupt" THEN 130
    ELSE 1

\* docker: the compose_file the analysis is given, if any
HasComposeFile(command, file) ==
    CASE command = "compose -f FILE up" -> TRUE
      [] command = "compose up" -> file.exists
      [] OTHER -> FALSE
\* kubectl: whether the command is an apply with a file
HasManifest(command) == command = "apply -f FILE"

\* ------------------------------------------------------------------------
\* the state
\* ------------------------------------------------------------------------
VARIABLES
    pc,             \* "called", then "returned", "raised" or "exited"
    entry,          \* the operation called
    file,           \* the file the path names
    environ,        \* os.environ
    cfg,            \* what get_config() meets
    use_ai,         \* the use_ai argument
    argv,           \* the wrapped command and the flags of a checkdk run
    loader,         \* what the loader did: the exception it raised, its issues
    ai_provider,    \* the provider the analysis used
    asked,          \* the calls of ai_provider.analyze_error so far, in order
    result,         \* the AnalysisResult returned
    run,            \* whether the wrapper analysed, prompted, started the command
    exit_code,      \* the exit code of the checkdk process
    parser,         \* the current DockerComposeParser instance and its issues
    parsed,         \* what each parse() call so far left: config, issues
    ai_response,    \* the text the provider's SDK returned
    ai_parsed       \* the dict _parse_response returned for it

vars == <<pc, entry, file, environ, cfg, use_ai, argv, loader, ai_provider, asked, result, run,
          exit_code, parser, parsed, ai_response, ai_parsed>>

NoLoader == [raised |-> "none", issues |-> <<>>, loaded |-> FALSE]
NoResponse == [t |-> "none"]
NoRun == [analysed |-> FALSE, gate |-> FALSE, prompted |-> FALSE, invoked |-> FALSE,
          response |-> NoResponse, child |-> NoChild, end |-> Exit(0),
          shown |-> [none |-> FALSE, critical |-> <<>>, warnings |-> <<>>, info |-> <<>>]]

\* before the operation ran
Fresh ==
    /\ pc = "called"
    /\ loader = NoLoader /\ ai_provider = "None" /\ asked = <<>> /\ result = NoResult
    /\ run = NoRun /\ exit_code = -1 /\ parsed = <<>>
    /\ ai_response = <<>> /\ ai_parsed = NoResult

\* a call of analyze_docker_compose or of analyze_kubernetes_manifest
Init ==
    /\ Fresh /\ argv = [command |-> "none", dry_run |-> FALSE, force |-> FALSE] /\ parser = [id |-> 0, issues |-> <<>>]
    /\ entry \in {"analyze_docker_compose", "analyze_kubernetes_manifest"}
    /\ environ \in Environments
    /\ file \in IF entry = "analyze_docker_compose" THEN ComposeFiles ELSE K8sFiles
    /\ use_ai \in IF entry = "analyze_docker_compose" THEN BOOLEAN ELSE {TRUE}
    /\ cfg \in IF use_ai THEN ConfigOutcomes ELSE {"unread"}

\* the ways analyze_docker_compose(file, use_ai) can go, one for each course of
\* the live probes and of the provider's answers
ComposeAnalyses(path, env, ai, config_outcome) ==
    UNION {{[loader |-> [raised |-> "none", issues |-> found.parsed.issues, loaded |-> TRUE,
                         config |-> found.parsed.config],
             ai_provider |-> SelectProvider(ai, config_outcome, env),
             raised |-> out.raised,
             result |-> out.result,
             asked |-> out.asked] :
            out \in {ComposeResult(found, SelectProvider(ai, config_outcome, env), replies) :
                     replies \in Replies(found.all_issues, SelectProvider(ai, config_outcome, env))}} :
           found \in {ComposeIssues(path, env, probe) :
                      probe \in Probes(parse(path, env, <<>>).config)}}

\* the ways analyze_kubernetes_manifest(file) can go
K8sAnalyses(path, env, config_outcome) ==
    UNION {{[loader |-> [raised |-> loaded.raised, issues |-> <<>>, loaded |-> TRUE,
                         resources |-> loaded.resources],
             ai_provider |-> SelectProvider(TRUE, config_outcome, env),
             raised |-> FALSE,
             result |-> K8sResult(loaded, SelectProvider(TRUE, config_outcome, env), replies),
             asked |-> K8sAsked(loaded, SelectProvider(TRUE, config_outcome, env), replies)] :
            replies \in Replies(K8sIssues(loaded.resources).issues,
                                SelectProvider(TRUE, config_outcome, env))} :
           loaded \in {K8sParse(path)}}

\* analyze_docker_compose(file_path, use_ai)
AnalyzeDockerCompose ==
    /\ pc = "called" /\ entry = "analyze_docker_compose"
    /\ \E analysis \in ComposeAnalyses(file, environ, use_ai, cfg) :
         /\ pc' = IF analysis.raised THEN "raised" ELSE "returned"
         /\ result' = analysis.result
         /\ loader' = analysis.loader
         /\ ai_provider' = analysis.ai_provider
         /\ asked' = analysis.asked
    /\ UNCHANGED <<entry, file, environ, cfg, use_ai, argv, run, exit_code, parser, parsed,
                   ai_response, ai_parsed>>

\* analyze_kubernetes_manifest(file_path)
AnalyzeKubernetesManifest ==
    /\ pc = "called" /\ entry = "analyze_kubernetes_manifest"
    /\ \E analysis \in K8sAnalyses(file, environ, cfg) :
         /\ pc' = "returned"
         /\ result' = analysis.result
         /\ loader' = analysis.loader
         /\ ai_provider' = analysis.ai_provider
         /\ asked' = analysis.asked
    /\ UNCHANGED <<entry, file, environ, cfg, use_ai, argv, run, exit_code, parser, parsed,
                   ai_response, ai_parsed>>

Next == AnalyzeDockerCompose \/ AnalyzeKubernetesManifest

Spec == Init /\ [][Next]_vars

\* ------------------------------------------------------------------------
\* checkdk docker ... and checkdk kubectl ...
\* ------------------------------------------------------------------------
\* the Compose files of the runs: absent, or one service of any shape
CliComposeFiles ==
    {AbsentFile}
    \cup {FileOf(PyDict(<<<<K.services, ServicesOf(<<shape>>)>>>>)) : shape \in GeneralShapes}

\* display_analysis_result: what it prints, the "No issues found" panel or the
\* issues by severity, each CRITICAL issue with the fix printed under it, its
\* heading and its steps
display_analysis_result(analysis_result) ==
    LET critical == SelectSeq(analysis_result.issues, LAMBDA i : i.severity = CRITICAL)
        warnings == SelectSeq(analysis_result.issues, LAMBDA i : i.severity = WARNING)
        info == SelectSeq(analysis_result.issues, LAMBDA i : i.severity = INFO)
        Shown(idx) ==
            IF idx <= Len(analysis_result.fixes)
            THEN LET fix == analysis_result.fixes[idx]
                 IN [issue |-> critical[idx], fix |-> fix,
                     heading |-> IF fix.explanation # PyNone \/ fix.root_cause # PyNone
                                 THEN "AI-Enhanced Fix" ELSE "Fix",
                     steps |-> fix.steps]
            ELSE [issue |-> critical[idx], fix |-> PyNone, heading |-> "", steps |-> <<>>]
    IN IF Len(analysis_result.issues) = 0 THEN [NoRun.shown EXCEPT !.none = TRUE]
       ELSE [none |-> FALSE, critical |-> [idx \in 1..Len(critical) |-> Shown(idx)],
             warnings |-> warnings, info |-> info]

\* when no analysis ran: docker hands the executor AnalysisResult(success=True)
NotAnalysed ==
    [loader |-> NoLoader, ai_provider |-> "None", raised |-> FALSE,
     result |-> AnalysisResult(TRUE, <<>>, <<>>), asked |-> <<>>]

\* docker, after the analysis if there was one
docker(args, analysed, analysis, interrupted, response, child) ==
    IF analysed /\ interrupted
    THEN [NoRun EXCEPT !.analysed = TRUE, !.end = Raise("KeyboardInterrupt")]
    ELSE IF analysed /\ analysis.raised
    THEN [NoRun EXCEPT !.analysed = TRUE, !.end = Raise("Exception")]
    ELSE IF analysed /\ args.dry_run
    THEN [NoRun EXCEPT !.analysed = TRUE,
                       !.shown = display_analysis_result(analysis.result),
                       !.end = Exit(IF ~has_critical_errors(analysis.result) THEN 0 ELSE 1)]
    ELSE The({[analysed |-> analysed, gate |-> TRUE, prompted |-> e.prompted,
               invoked |-> e.invoked, response |-> response, child |-> child, end |-> e.end,
               shown |-> IF analysed THEN display_analysis_result(analysis.result) ELSE NoRun.shown] :
              e \in {execute(analysis.result, analysed /\ args.force, response, child)}})

\* kubectl, after the analysis if there was one
kubectl(args, analysed, analysis, interrupted, child) ==
    IF analysed /\ interrupted
    THEN [NoRun EXCEPT !.analysed = TRUE, !.end = Raise("KeyboardInterrupt")]
    ELSE IF analysed /\ args.dry_run
    THEN [NoRun EXCEPT !.analysed = TRUE,
                       !.shown = display_analysis_result(analysis.result),
                       !.end = Exit(IF ~has_critical_errors(analysis.result) THEN 0 ELSE 1)]
    ELSE IF analysed /\ has_critical_errors(analysis.result) /\ ~args.force
    THEN [NoRun EXCEPT !.analysed = TRUE, !.gate = TRUE,
                       !.shown = display_analysis_result(analysis.result), !.end = Exit(1)]
    ELSE The({[analysed |-> analysed, gate |-> TRUE, prompted |-> e.prompted,
               invoked |-> e.invoked, response |-> NoResponse, child |-> child, end |-> e.end,
               shown |-> IF analysed THEN display_analysis_result(analysis.result) ELSE NoRun.shown] :
              e \in {call(child)}})

\* a run of checkdk docker ... or of checkdk kubectl ...; the shapes of the
\* command: compose -f FILE up, compose up (the file is looked for in the
\* current directory), compose alone, and ps; apply -f FILE, apply -f, get pods
CliInit ==
    /\ Fresh /\ parser = [id |-> 0, issues |-> <<>>]
    /\ entry \in {"docker", "kubectl"}
    /\ argv \in [command : IF entry = "docker"
                           THEN {"compose -f FILE up", "compose up", "compose", "ps"}
                           ELSE {"apply -f FILE", "apply -f", "get pods"},
                 dry_run : BOOLEAN, force : BOOLEAN]
    /\ file \in IF entry = "docker" THEN CliComposeFiles ELSE K8sFiles
    /\ environ \in Environments
    /\ use_ai = TRUE
    /\ cfg \in ConfigOutcomes

\* checkdk docker COMMAND [--dry-run] [--force], up to the exit of the process
Docker ==
    /\ pc = "called" /\ entry = "docker"
    /\ \E analysed \in {HasComposeFile(argv.command, file)} :
       \E analysis \in IF analysed THEN ComposeAnalyses(file, environ, use_ai, cfg)
                       ELSE {NotAnalysed} :
       \E interrupted \in IF analysed THEN BOOLEAN ELSE {FALSE} :
       \E response \in IF docker(argv, analysed, analysis, interrupted, NoResponse, NoChild).prompted
                       THEN Responses ELSE {NoResponse} :
       \E child \in IF docker(argv, analysed, analysis, interrupted, response, NoChild).invoked
                    THEN ChildOutcomes ELSE {NoChild} :
       \E ran \in {docker(argv, analysed, analysis, interrupted, response, child)} :
         /\ run' = ran
         /\ loader' = IF interrupted THEN NoLoader ELSE analysis.loader
         /\ ai_provider' = IF interrupted THEN "None" ELSE analysis.ai_provider
         /\ asked' = IF interrupted THEN <<>> ELSE analysis.asked
         /\ result' = IF interrupted THEN NoResult ELSE analysis.result
         /\ exit_code' = main(ran.end)
         /\ pc' = "exited"
    /\ UNCHANGED <<entry, file, environ, cfg, use_ai, argv, parser, parsed, ai_response, ai_parsed>>

\* checkdk kubectl COMMAND [--dry-run] [--force], up to the exit of the process
Kubectl ==
    /\ pc = "called" /\ entry = "kubectl"
    /\ \E analysed \in {HasManifest(argv.command)} :
       \E analysis \in IF analysed THEN K8sAnalyses(file, environ, cfg)
                       ELSE {[NotAnalysed EXCEPT !.result = NoResult]} :
       \E interrupted \in IF analysed THEN BOOLEAN ELSE {FALSE} :
       \E child \in IF kubectl(argv, analysed, analysis, interrupted, NoChild).invoked
                    THEN ChildOutcomes ELSE {NoChild} :
       \E ran \in {kubectl(argv, analysed, analysis, interrupted, child)} :
         /\ run' = ran
         /\ loader' = IF interrupted THEN NoLoader ELSE analysis.loader
         /\ ai_provider' = IF interrupted THEN "None" ELSE analysis.ai_provider
         /\ asked' = IF interrupted THEN <<>> ELSE analysis.asked
         /\ result' = IF interrupted THEN NoResult ELSE analysis.result
         /\ exit_code' = main(ran.end)
         /\ pc' = "exited"
    /\ UNCHANGED <<entry, file, environ, cfg, use_ai, argv, parser, parsed, ai_response, ai_parsed>>

CliNext == Docker \/ Kubectl

SpecCli == CliInit /\ [][CliNext]_vars

\* ------------------------------------------------------------------------
\* DockerComposeParser instances parsing one file
\* ------------------------------------------------------------------------
\* the most parse() calls made on the file
MaxParseCalls == 2

\* DockerComposeParser(file) was constructed
ParserInit ==
    /\ Fresh /\ argv = [command |-> "none", dry_run |-> FALSE, force |-> FALSE]
    /\ entry = "DockerComposeParser"
    /\ parser = [id |-> 1, issues |-> <<>>]
    /\ file \in ComposeFiles
    /\ environ \in Environments
    /\ use_ai = FALSE
    /\ cfg = "unread"

\* parser.parse() on the current instance
Parse ==
    /\ entry = "DockerComposeParser"
    /\ Len(parsed) < MaxParseCalls
    /\ \E out \in {parse(file, environ, parser.issues)} :
         /\ parser' = [parser EXCEPT !.issues = out.issues]
         /\ parsed' = Append(parsed, [instance |-> parser.id, config |-> out.config,
                                      issues |-> out.issues])
    /\ UNCHANGED <<pc, entry, file, environ, cfg, use_ai, argv, loader, ai_provider, asked, result, run,
                   exit_code, ai_response, ai_parsed>>

\* DockerComposeParser(file): a new instance, once the current one has parsed
NewParser ==
    /\ entry = "DockerComposeParser"
    /\ 0 < Len(parsed) /\ Len(parsed) < MaxParseCalls
    /\ parsed[Len(parsed)].instance = parser.id
    /\ parser' = [id |-> parser.id + 1, issues |-> <<>>]
    /\ UNCHANGED <<pc, entry, file, environ, cfg, use_ai, argv, loader, ai_provider, asked, result, run,
                   exit_code, parsed, ai_response, ai_parsed>>

ParserNext == Parse \/ NewParser

SpecParser == ParserInit /\ [][ParserNext]_vars

\* ------------------------------------------------------------------------
\* ai/providers.py: _parse_response
\* ------------------------------------------------------------------------
\* str.lstrip(chars)
RECURSIVE lstrip(_, _)
lstrip(s, chars) == IF s # <<>> /\ Head(s) \in chars THEN lstrip(Tail(s), chars) ELSE s

\* str.split(sep)
RECURSIVE split(_, _)
split(s, sep) ==
    IF ~Contains(s, sep) THEN <<s>>
    ELSE <<SplitOnce(s, sep)[1]>> \o split(SplitOnce(s, sep)[2], sep)

\* GroqProvider._parse_response and GeminiProvider._parse_response, which differ
\* in the bullet markers: '-', U+2022 (written "bullet") and, for Groq, '*'
parse_response(provider, response) ==
    LET lines == split(strip(response), <<"\n">>)
        markers == IF provider = "groq" THEN {"-", "bullet", "*"} ELSE {"-", "bullet"}
        explanation == <<"e", "x", "p", "l", "a", "n", "a", "t", "i", "o", "n">>
        root_cause == <<"r", "o", "o", "t", " ", "c", "a", "u", "s", "e">>
        root == <<"r", "o", "o", "t">>
        fix == <<"f", "i", "x">>
        \* one iteration of for line in lines, on the dict result (res)
        Body(res, unstripped) ==
            The({
              IF line = <<>> THEN res
              ELSE IF Contains(lower(line), explanation) /\ Contains(line, <<":">>)
              THEN [res EXCEPT !.current_section = "explanation",
                                  !.explanation = IF strip(SplitOnce(line, <<":">>)[2]) # <<>>
                                                  THEN strip(SplitOnce(line, <<":">>)[2]) ELSE @]
              ELSE IF Contains(lower(line), root_cause) /\ Contains(line, <<":">>)
              THEN [res EXCEPT !.current_section = "root_cause",
                                  !.root_cause = IF strip(SplitOnce(line, <<":">>)[2]) # <<>>
                                                 THEN strip(SplitOnce(line, <<":">>)[2]) ELSE @]
              ELSE IF Contains(lower(line), fix) /\ Contains(line, <<":">>)
              THEN [res EXCEPT !.current_section = "fix_steps"]
              ELSE IF res.current_section = "fix_steps"
                      /\ (line[1] \in markers \/ IsDigit(line[1]))
              THEN The({IF clean_line # <<>>
                        THEN [res EXCEPT !.fix_steps = Append(@, clean_line)]
                        ELSE res :
                        clean_line \in
                            {strip(lstrip(line, markers \cup {Digits[d] : d \in 1..10}
                                                        \cup {".", " "}))}})
              ELSE IF /\ res.current_section # "None"
                      /\ ~Contains(lower(line), explanation)
                      /\ ~Contains(lower(line), root)
                      /\ ~Contains(lower(line), fix)
              THEN IF res.current_section = "explanation" /\ res.explanation = <<>>
                   THEN [res EXCEPT !.explanation = line]
                   ELSE IF res.current_section = "root_cause" /\ res.root_cause = <<>>
                   THEN [res EXCEPT !.root_cause = line]
                   ELSE res
              ELSE res :
              line \in {strip(unstripped)}})
        RECURSIVE Loop(_)
        Loop(n) ==
            IF n = 0
            THEN [current_section |-> "None", explanation |-> <<>>, root_cause |-> <<>>,
                  fix_steps |-> <<>>]
            ELSE Body(Loop(n - 1), lines[n])
    IN The({[explanation |-> IF res.explanation = <<>>
                             THEN SubSeq(response, 1, IF Len(response) < 200 THEN Len(response) ELSE 200)
                             ELSE res.explanation,
             root_cause |-> res.root_cause,
             fix_steps |-> res.fix_steps] :
            res \in {Loop(Len(lines))}})

\* the most lines a response of the provider holds
MaxLines == 3

\* the responses: up to MaxLines lines, each a header with or without text after
\* the colon, a header with two header words, a step behind '-', '*' or a number, a numbered step that holds
\* 'fix' and a colon, plain text, or empty
ResponseTexts ==
    LET kinds ==
            {<<"E", "x", "p", "l", "a", "n", "a", "t", "i", "o", "n", ":", " ", "x">>,
             <<"E", "x", "p", "l", "a", "n", "a", "t", "i", "o", "n", ":">>,
             <<"e", "x", "p", "l", "a", "n", "a", "t", "i", "o", "n", ":", " ", "w">>,
             <<"R", "o", "o", "t", " ", "c", "a", "u", "s", "e", " ", "e", "x", "p", "l", "a", "n", "a",
               "t", "i", "o", "n", ":", " ", "q">>,
             <<"R", "o", "o", "t", " ", "c", "a", "u", "s", "e", ":", " ", "y">>,
             <<"F", "i", "x", ":">>,
             <<"-", " ", "a">>,
             <<"*", " ", "e">>,
             <<"1", ".", " ", "b">>,
             <<"2", ".", " ", "f", "i", "x", " ", "c", ":", " ", "d">>,
             <<"z", "z">>,
             <<>>}
    IN UNION {{Flatten([i \in 1..n |-> IF i = 1 THEN text[i] ELSE <<"\n">> \o text[i]]) :
               text \in [1..n -> kinds]} : n \in 1..MaxLines}

\* a provider's SDK returned a response
ResponseInit ==
    /\ pc = "called" /\ entry = "_parse_response"
    /\ ai_provider \in {"groq", "gemini"}
    /\ ai_response \in ResponseTexts
    /\ ai_parsed = NoResult
    /\ argv = [command |-> "none", dry_run |-> FALSE, force |-> FALSE]
    /\ parser = [id |-> 0, issues |-> <<>>]
    /\ file = AbsentFile /\ environ = <<>> /\ use_ai = TRUE /\ cfg = "enabled"
    /\ loader = NoLoader /\ asked = <<>> /\ result = NoResult
    /\ run = NoRun /\ exit_code = -1 /\ parsed = <<>>

\* self._parse_response(response)
ParseResponse ==
    /\ pc = "called" /\ entry = "_parse_response"
    /\ ai_parsed' = parse_response(ai_provider, ai_response)
    /\ pc' = "returned"
    /\ UNCHANGED <<entry, file, environ, cfg, use_ai, argv, loader, ai_provider, asked, result, run,
                   exit_code, parser, parsed, ai_response>>

SpecResponse == ResponseInit /\ [][ParseResponse]_vars

\* ------------------------------------------------------------------------
\* the properties
\* ------------------------------------------------------------------------
\* the run analyses a Compose file (a Kubernetes manifest otherwise)
OnCompose == entry \in {"analyze_docker_compose", "docker"}
\* the file is an input error of the loader: absent, not YAML, a root that is
\* no mapping (Compose), no document that counts (Kubernetes)
InputError ==
    IF OnCompose
    THEN ~file.exists \/ file.content = YamlError \/ file.content.t # "dict"
    ELSE K8sParse(file).raised # "none" \/ K8sParse(file).resources = <<>>
\* issue is the CRITICAL invalid-manifest issue
InvalidManifest(issue) == issue.type = "invalid_yaml" /\ issue.severity = CRITICAL
\* fix is a Fix the analysis generates from issue: the rule-based one, or the
\* one built from an answer of the provider about the issue's message
GeneratedFrom(fix, issue) ==
    \/ fix = TemplateFix(IF OnCompose THEN "docker-compose" ELSE "kubernetes", issue)
    \/ \E reply \in AiReplies :
         /\ AiAccepted(analyze_error(reply, issue.message))
         /\ fix = AiFix(analyze_error(reply, issue.message))

\* C1: every AnalysisResult an entry point returns has as many fixes as issues,
\* and the fix at each index is the one generated from the issue at that index.
C1_IndexAligned ==
    pc = "returned" =>
        /\ Len(result.issues) = Len(result.fixes)
        /\ \A i \in 1..Len(result.issues) :
             i <= Len(result.fixes) /\ GeneratedFrom(result.fixes[i], result.issues[i])

\* C2: in every AnalysisResult returned, success is true exactly when no issue
\* of the result is CRITICAL: success == not has_critical_errors().
C2_SuccessIffNoCritical ==
    pc = "returned" => (result.success <=> ~has_critical_errors(result))
\* a returned result that has issues, none of them CRITICAL, and success
C2_Witness ==
    /\ pc = "returned" /\ Len(result.issues) > 0
    /\ result.success /\ ~has_critical_errors(result)

\* C3: whatever the file, the entry point returns an AnalysisResult and lets no
\* exception reach its caller; when the file cannot be loaded the result holds a
\* single CRITICAL invalid-manifest issue whose fix is 'Manual review required'.
C3_AlwaysReturns ==
    /\ pc # "raised"
    /\ pc = "returned" /\ InputError =>
         /\ Len(result.issues) = 1 /\ InvalidManifest(result.issues[1])
         /\ result.fixes = <<ManualReview>>

\* C4: without an AI provider, every issue of the result has its fix, the one of
\* the rule-based templates, with at least one step.
C4_TemplateFixForEveryIssue ==
    pc = "returned" /\ ai_provider = "None" =>
        /\ Len(result.fixes) = Len(result.issues)
        /\ \A i \in 1..Len(result.issues) :
             /\ i <= Len(result.fixes)
             /\ result.fixes[i] = TemplateFix(IF OnCompose THEN "docker-compose" ELSE "kubernetes",
                                              result.issues[i])
             /\ Len(result.fixes[i].steps) > 0

\* the mappings of the loaded config, in the order validate visits them: the
\* service and the host port of each
Mappings ==
    [n \in 1..Len(PortEvents(loader.config)) |->
        [service |-> PortEvents(loader.config)[n].service,
         port |-> extract_host_port(PortEvents(loader.config)[n].pm)]]
\* the host ports among mappings
HostPorts(mappings) == {mappings[n].port : n \in 1..Len(mappings)} \ {PyNone}
\* the mappings of host port P, the services that map it, and the first of them
MappingsOf(mappings, P) == {n \in 1..Len(mappings) : mappings[n].port = P}
ServicesMapping(mappings, P) == {mappings[n].service : n \in MappingsOf(mappings, P)}
FirstMapping(mappings, P) ==
    mappings[CHOOSE n \in MappingsOf(mappings, P) : \A m \in MappingsOf(mappings, P) : n <= m].service
\* the PORT_CONFLICT issues of the result for host port P
ConflictsFor(P) ==
    {i \in 1..Len(result.issues) :
       result.issues[i].type = "port_conflict" /\ Detail(result.issues[i], "port", PyNone) = P}
\* the issue carries the detail k
HasDetail(issue, k) == \E j \in 1..Len(issue.details) : issue.details[j][1] = k
\* the message of the issue has x among the values it is formatted from
Names(issue, x) == \E k \in 1..Len(issue.message.args) : issue.message.args[k] = x

\* C5, as claimed: when two services of a Compose config map the same host port
\* P, the result has exactly one PORT_CONFLICT issue for P, which is CRITICAL and
\* whose message names P and both services.
C5_ExactlyOneConflict ==
    pc = "returned" /\ OnCompose =>
        \A mappings \in {Mappings} : \A P \in HostPorts(mappings) :
            Cardinality(ServicesMapping(mappings, P)) = 2 =>
                /\ Cardinality(ConflictsFor(P)) = 1
                /\ \A i \in ConflictsFor(P) :
                     /\ result.issues[i].severity = CRITICAL
                     /\ Names(result.issues[i], P)
                     /\ \A service \in ServicesMapping(mappings, P) :
                          Names(result.issues[i], PyStr(service))

\* C5, amended: for each host port P the result has one duplicate-port
\* PORT_CONFLICT issue for every mapping of P after the first (exactly one when
\* two services map P once each), each CRITICAL and naming P, the first service
\* that maps P and the service of the mapping; the other PORT_CONFLICT issues for
\* P are those of the live probe, at most one for each mapping of P.
C5_OneConflictPerLaterMapping ==
    pc = "returned" /\ OnCompose =>
        \A mappings \in {Mappings} : \A P \in HostPorts(mappings) :
        \A conflicts \in {ConflictsFor(P)} :
        \A duplicates \in {{i \in conflicts : HasDetail(result.issues[i], "conflicting_service")}} :
            /\ Cardinality(duplicates) = Cardinality(MappingsOf(mappings, P)) - 1
            /\ \A i \in duplicates :
                 /\ result.issues[i].severity = CRITICAL
                 /\ result.issues[i].service_name
                        \in {PyStr(service) : service \in ServicesMapping(mappings, P)}
                 /\ result.issues[i].message.args =
                        <<P, PyStr(FirstMapping(mappings, P)), result.issues[i].service_name>>
            /\ Cardinality(conflicts \ duplicates) <= Cardinality(MappingsOf(mappings, P))
            /\ \A i \in conflicts \ duplicates :
                 /\ HasDetail(result.issues[i], "process")
                 /\ result.issues[i].severity = CRITICAL
\* two services map the same host port, the result reports the duplicate, and a
\* live probe found the port bound as well
C5_Witness ==
    /\ pc = "returned" /\ OnCompose
    /\ \E P \in HostPorts(Mappings) :
         /\ Cardinality(ServicesMapping(Mappings, P)) = 2
         /\ \E i \in ConflictsFor(P) : HasDetail(result.issues[i], "conflicting_service")
         /\ \E i \in ConflictsFor(P) : HasDetail(result.issues[i], "process")

\* C9: an input error (file absent, YAML invalid, root no mapping for Compose, no
\* document for Kubernetes) leaves the loader as no exception: loading yields
\* exactly one INVALID_YAML issue of severity CRITICAL (and an empty config), and
\* the pipeline goes on to return a result.
C9_InputErrorsBecomeIssues ==
    pc \in {"returned", "raised"} /\ InputError =>
        /\ loader.raised = "none"
        /\ pc = "returned"
        /\ LET issues == IF OnCompose THEN loader.issues ELSE result.issues
           IN Len(issues) = 1 /\ InvalidManifest(issues[1])
        /\ OnCompose => loader.config = EmptyConfig

\* the result of the run has a CRITICAL issue; it has a WARNING issue
Critical == result # NoResult /\ has_critical_errors(result)
Warnings == result # NoResult /\ has_warnings(result)

\* C6: a run whose result has a CRITICAL issue, without --force, never starts
\* the wrapped command and ends with code 1; of the runs that come to the
\* execution gate, a docker run with warnings only, without --force, prompts and
\* starts the command exactly on an affirmative answer, and a run with --force,
\* or with neither critical issues nor warnings, starts the command without a
\* prompt and ends with the exit code of the command.
C6_ExecutionGate ==
    pc = "exited" =>
        /\ Critical /\ ~argv.force => ~run.invoked /\ exit_code = 1
        /\ run.gate /\ entry = "docker" /\ ~Critical /\ Warnings /\ ~argv.force =>
             run.prompted /\ (run.invoked <=> Affirmative(run.response))
        /\ run.gate /\ (argv.force \/ (~Critical /\ ~Warnings)) =>
             /\ ~run.prompted /\ run.invoked
             /\ run.child.kind = "exit" => exit_code = run.child.rc
\* a docker run with warnings only and no --force that prompted, was answered
\* yes, started the command and ended with the command's exit code 2
C6_Witness ==
    /\ pc = "exited" /\ entry = "docker" /\ run.gate
    /\ ~Critical /\ Warnings /\ ~argv.force
    /\ run.prompted /\ Affirmative(run.response) /\ run.invoked
    /\ run.child = [kind |-> "exit", rc |-> 2] /\ exit_code = 2

\* C7: every run ends with 1 when a CRITICAL issue blocks the execution or a
\* generic error occurs, 127 when the wrapped binary is not found, 130 when it is
\* interrupted, and with 0 only when the wrapped command ran and returned 0 (a
\* --dry-run ends with the code of its analysis).
C7_ExitCodes ==
    pc = "exited" =>
        /\ run.gate /\ Critical /\ ~argv.force => exit_code = 1
        /\ run.child.kind = "not_found" => exit_code = 127
        /\ run.child.kind = "os_error" => exit_code = 1
        /\ run.end.raised = "KeyboardInterrupt" => exit_code = 130
        /\ run.end.raised = "Exception" => exit_code = 1
        /\ exit_code = 0 /\ run.gate =>
             run.invoked /\ run.child = [kind |-> "exit", rc |-> 0]

\* C8: with --dry-run the wrapped command is never started, whatever the shape
\* of the command; when an analysis ran and returned a result the exit code is 0
\* exactly when the result has no CRITICAL issue.
C8_DryRunNeverExecutes ==
    pc = "exited" /\ argv.dry_run =>
        /\ ~run.invoked
        /\ run.analysed /\ result # NoResult => (exit_code = 0 <=> ~has_critical_errors(result))

\* C10: every parse() of the file, on a fresh DockerComposeParser or again on
\* the same one, leaves the same config and the same issues, in the same order,
\* as the parse() before it.
C10_ParseIdempotent ==
    \A n \in 1..Len(parsed) :
        n > 1 => /\ parsed[n].config = parsed[n - 1].config
                 /\ parsed[n].issues = parsed[n - 1].issues

\* the str scalars of a loaded document, depth first: the values of mappings
\* and the items of lists
RECURSIVE Scalars(_)
Scalars(v) ==
    CASE v.t = "dict" -> Flatten([i \in 1..Len(v.d) |-> Scalars(v.d[i][2])])
      [] v.t = "list" -> Flatten([i \in 1..Len(v.l) |-> Scalars(v.l[i])])
      [] v.t = "str" -> <<v.s>>
      [] OTHER -> <<>>
\* the MISSING_ENV_VAR issues among issues whose variable is name
MissingVar(issues, name) ==
    {i \in 1..Len(issues) :
       issues[i].type = "missing_env_var" /\ Detail(issues[i], "variable", PyNone) = PyStr(name)}

\* C11: with A unset, a Compose file whose only references are scalars that are
\* exactly ${A} or exactly ${A:-ng:1} gets exactly one MISSING_ENV_VAR issue, a
\* WARNING with variable A, for each scalar ${A}, which stays unresolved; each
\* scalar ${A:-ng:1} resolves to ng:1 and gets no issue.
C11_EnvResolution ==
    pc = "returned" /\ OnCompose /\ ~HasKey(environ, V.A) =>
        \A scalars \in {Scalars(file.content)} :
        \A resolved \in {Scalars(loader.config.raw_config)} :
            (\A n \in 1..Len(scalars) :
                Contains(scalars[n], <<"$">>) => scalars[n] \in {V.ref_A, V.ref_A_default}) =>
                /\ Len(resolved) = Len(scalars)
                /\ Cardinality(MissingVar(result.issues, V.A))
                       = Cardinality({n \in 1..Len(scalars) : scalars[n] = V.ref_A})
                /\ \A i \in MissingVar(result.issues, V.A) : result.issues[i].severity = WARNING
                /\ \A n \in 1..Len(scalars) :
                     /\ scalars[n] = V.ref_A => resolved[n] = V.ref_A
                     /\ scalars[n] = V.ref_A_default => resolved[n] = V.img_pinned

\* the tag of an image reference: what follows its last ':' unless that holds a
\* '/' (the ':' then belongs to the registry host), <<>> when there is no tag
RECURSIVE Tag(_)
Tag(image) ==
    IF ~Contains(image, <<":">>) THEN <<>>
    ELSE LET rest == SplitOnce(image, <<":">>)[2]
         IN IF Contains(rest, <<":">>) THEN Tag(rest)
            ELSE IF Contains(rest, <<"/">>) THEN <<>>
            ELSE rest
\* the issues of the result of the given type for the given service
IssuesOf(type, service_name) ==
    {i \in 1..Len(result.issues) :
       result.issues[i].type = type /\ result.issues[i].service_name = PyStr(service_name)}

\* C12: every service with an image string gets exactly one IMAGE_VERSION issue,
\* a WARNING, when the tag of the image is absent or is latest, and none when the
\* image carries another tag.
C12_VersionPinning ==
    pc = "returned" /\ OnCompose =>
        \A n \in 1..Len(loader.config.services.d) :
        \A service_name \in {loader.config.services.d[n][1]} :
        \A image \in {Get(loader.config.services.d[n][2], K.image, PyNone)} :
            image.t = "str" /\ Truthy(image) =>
                /\ Cardinality(IssuesOf("image_version", service_name))
                       = IF Tag(image.s) \in {<<>>, <<"l", "a", "t", "e", "s", "t">>} THEN 1 ELSE 0
                /\ \A i \in IssuesOf("image_version", service_name) :
                     result.issues[i].severity = WARNING

\* the service names a service refers to: the entries of a depends_on list, the
\* keys of a depends_on mapping, the part before ':' of each link
References(service_config) ==
    LET depends_on == Get(service_config, K.depends_on, PyList(<<>>))
        links == Get(service_config, K.links, PyList(<<>>))
    IN (IF depends_on.t = "dict" THEN [i \in 1..Len(depends_on.d) |-> depends_on.d[i][1]]
        ELSE [i \in 1..Len(depends_on.l) |-> depends_on.l[i].s])
       \o [i \in 1..Len(links.l) |-> SplitHead(links.l[i].s, <<":">>)]

\* C13: every reference of a service (depends_on in either form, links) to a
\* name that is no declared service yields exactly one SERVICE_DEPENDENCY issue,
\* CRITICAL, naming the reference and carrying the set of declared service names
\* in its details; references to declared services yield none.
C13_DanglingReferences ==
    pc = "returned" /\ OnCompose =>
        \A declared \in {KeySet(loader.config.services)} :
        \A n \in 1..Len(loader.config.services.d) :
        \A service_name \in {loader.config.services.d[n][1]} :
        \A service_config \in {loader.config.services.d[n][2]} :
            service_config.t = "dict" =>
                \A refs \in {References(service_config)} :
                \A issues \in {IssuesOf("service_dependency", service_name)} :
                    /\ Cardinality(issues) = Cardinality({k \in 1..Len(refs) : refs[k] \notin declared})
                    /\ \A r \in {refs[k] : k \in 1..Len(refs)} :
                         Cardinality({i \in issues : result.issues[i].message.args[2] = PyStr(r)})
                             = IF r \in declared THEN 0 ELSE Cardinality({k \in 1..Len(refs) : refs[k] = r})
                    /\ \A i \in issues :
                         /\ result.issues[i].severity = CRITICAL
                         /\ Detail(result.issues[i], "available_services", PyNone) = PySet(declared)

\* the steps of the rule-based fixes that hold the text 'image:', and 'build:'
StepsWithImage ==
    {"      image: nginx:1.21.0  # Use specific version",
     "      image: {}:1.21.0  # Choose appropriate version",
     "      image: appropriate/image:tag",
     "    image: {}:1.21.0  # Use specific version"}
StepsWithBuild == {"      build: ./path/to/dockerfile"}
\* one of the steps of fix is a text among formats
Mentions(fix, formats) ==
    \E k \in 1..Len(fix.steps) : "fmt" \in DOMAIN fix.steps[k] /\ fix.steps[k].fmt \in formats
\* the services of the loaded config that are mappings without image and build
WithoutImage ==
    {loader.config.services.d[n][1] : n \in
       {m \in 1..Len(loader.config.services.d) :
          /\ loader.config.services.d[m][2].t = "dict"
          /\ ~In(loader.config.services.d[m][2], K.image)
          /\ ~In(loader.config.services.d[m][2], K.build)}}
\* the loader reported service_name as lacking image and build
LoaderReports(service_name) ==
    \E j \in 1..Len(result.issues) :
        /\ result.issues[j].type = "invalid_yaml"
        /\ result.issues[j].service_name = PyStr(service_name)
        /\ result.issues[j].message.fmt = "Service '{}' must specify 'image' or 'build'"

\* C14, as claimed: a service with neither image nor build has exactly one
\* CRITICAL MISSING_IMAGE issue in the result, the fix at the index of that issue
\* has a step with 'image:' and a step with 'build:', and the loader reported the
\* service too.
C14_MissingImage ==
    pc = "returned" /\ OnCompose =>
        \A service_name \in WithoutImage :
            /\ Cardinality(IssuesOf("missing_image", service_name)) = 1
            /\ LoaderReports(service_name)
            /\ \A i \in IssuesOf("missing_image", service_name) :
                 /\ result.issues[i].severity = CRITICAL
                 /\ i <= Len(result.fixes)
                 /\ Mentions(result.fixes[i], StepsWithImage)
                 /\ Mentions(result.fixes[i], StepsWithBuild)

\* C14, amended: the same, the two steps being required of the fix unless it is
\* the accepted answer of the provider (a fix with an explanation).
C14_MissingImageTemplate ==
    pc = "returned" /\ OnCompose =>
        \A service_name \in WithoutImage :
            /\ Cardinality(IssuesOf("missing_image", service_name)) = 1
            /\ LoaderReports(service_name)
            /\ \A i \in IssuesOf("missing_image", service_name) :
                 /\ result.issues[i].severity = CRITICAL
                 /\ i <= Len(result.fixes)
                 /\ result.fixes[i].explanation = PyNone =>
                      /\ Mentions(result.fixes[i], StepsWithImage)
                      /\ Mentions(result.fixes[i], StepsWithBuild)
C14_Witness ==
    /\ pc = "returned" /\ OnCompose /\ ai_provider # "None"
    /\ \E service_name \in WithoutImage :
       \E i \in IssuesOf("missing_image", service_name) :
           /\ result.fixes[i].explanation = PyNone
           /\ Mentions(result.fixes[i], StepsWithImage)
           /\ Mentions(result.fixes[i], StepsWithBuild)

\* the platform whose rule-based fixes the run uses
Platform == IF OnCompose THEN "docker-compose" ELSE "kubernetes"

\* C15: every call of the provider is made for a CRITICAL issue, the calls follow
\* the order of the issues with at most one call for each issue, and an issue of
\* another severity is never the subject of a call and has the rule-based fix,
\* without explanation and root_cause.
C15_ProviderOnlyForCritical ==
    /\ \A k \in 1..Len(asked) : asked[k].issue.severity = CRITICAL
    /\ \A k \in 1..Len(asked) : \A l \in 1..Len(asked) : k < l => asked[k].n < asked[l].n
    /\ pc = "returned" =>
         \A i \in 1..Len(result.issues) :
             result.issues[i].severity # CRITICAL =>
                 /\ \A k \in 1..Len(asked) : asked[k].n # i /\ asked[k].issue # result.issues[i]
                 /\ i <= Len(result.fixes)
                 /\ result.fixes[i] = TemplateFix(Platform, result.issues[i])
                 /\ result.fixes[i].explanation = PyNone
                 /\ result.fixes[i].root_cause = PyNone
C15_Witness ==
    /\ pc = "returned" /\ Len(asked) = 2
    /\ \E i \in 1..Len(result.issues) :
         /\ result.issues[i].severity = WARNING
         /\ asked[1].n < i /\ i < asked[2].n
         /\ result.fixes[asked[2].n].explanation # PyNone

\* the answers the provider gave about the issue at index i that carry no error
\* and at least one fix step
Usable(i) ==
    {asked[k].ai_result : k \in {l \in 1..Len(asked) :
        asked[l].n = i /\ ~asked[l].ai_result.error /\ Len(asked[l].ai_result.fix_steps) > 0}}

\* C16: in a result with a fix for every issue, a fix that is not the rule-based
\* fix of its issue is built from an answer of the provider about that issue
\* that carries no error and at least one fix step, and an issue without such an
\* answer (no call, an error, no step) has exactly its rule-based fix.
C16_AcceptedOrTemplate ==
    pc = "returned" /\ Len(result.fixes) = Len(result.issues) =>
        \A i \in 1..Len(result.issues) :
            /\ result.fixes[i] # TemplateFix(Platform, result.issues[i]) =>
                   \E ai_result \in Usable(i) : result.fixes[i] = AiFix(ai_result)
            /\ Usable(i) = {} => result.fixes[i] = TemplateFix(Platform, result.issues[i])
C16_Witness ==
    /\ pc = "returned" /\ Len(result.fixes) = Len(result.issues) /\ Len(asked) = 2
    /\ ~asked[1].ai_result.error /\ asked[1].ai_result.fix_steps = <<>>
    /\ result.fixes[asked[1].n] = TemplateFix(Platform, result.issues[asked[1].n])
    /\ Usable(asked[2].n) # {}
    /\ result.fixes[asked[2].n] # TemplateFix(Platform, result.issues[asked[2].n])

\* the ways the same call can go with AI disabled
DisabledRuns ==
    IF OnCompose THEN ComposeAnalyses(file, environ, FALSE, "unread")
    ELSE K8sAnalyses(file, environ, "disabled")

\* C17: whatever the provider does, the entry point returns, and the issues and
\* the success flag of its result are those of a run of the same call with AI
\* disabled.
C17_ProviderFailuresHidden ==
    pc # "called" /\ ai_provider # "None" =>
        /\ pc = "returned"
        /\ \E disabled \in DisabledRuns :
             /\ ~disabled.raised
             /\ disabled.result.issues = result.issues
             /\ disabled.result.success = result.success

\* one of the variables names is set to a non-empty value in the environment
Credential(names) ==
    \E i \in 1..Len(environ) : environ[i][1] \in names /\ Len(environ[i][2]) > 0

\* C18: the provider of a run is the Groq provider when AI is enabled (the
\* use_ai argument and the ai.enabled setting) and the Groq credential is
\* present, the Gemini provider when AI is enabled, the Groq credential is absent
\* and a Gemini credential is present, and none otherwise; a run that selected
\* none, or that found no CRITICAL issue, made no provider call.
C18_ProviderSelection ==
    pc \in {"returned", "raised"} =>
        /\ ai_provider =
             IF ~(use_ai /\ cfg = "enabled") THEN "None"
             ELSE IF Credential({K.GROQ_API_KEY}) THEN "groq"
             ELSE IF Credential({K.GEMINI_API_KEY, K.GOOGLE_API_KEY}) THEN "gemini"
             ELSE "None"
        /\ ai_provider = "None" => asked = <<>>
        /\ pc = "returned" /\ result.success => asked = <<>>
C18_Witness ==
    /\ pc = "returned" /\ ai_provider = "groq" /\ result.success
    /\ Credential({K.GROQ_API_KEY}) /\ Credential({K.GEMINI_API_KEY, K.GOOGLE_API_KEY})

\* C19: the explanation _parse_response returns is never empty, and it is the
\* first 200 characters of the response when the response has no header line.
C19_ExplanationNeverEmpty ==
    pc = "returned" /\ entry = "_parse_response" =>
        /\ ai_parsed.explanation # <<>>
        /\ ~Contains(ai_response, <<":">>) =>
               ai_parsed.explanation =
                   SubSeq(ai_response, 1, IF Len(ai_response) < 200 THEN Len(ai_response) ELSE 200)

\* line holds the word (in any case) and a colon
Header(line, word) == Contains(lower(line), word) /\ Contains(line, <<":">>)
\* the steps of the lines as the claim has them: once a line with 'fix' and a
\* colon has opened the steps (open), every non-empty line that starts with a
\* marker or a digit, until a header of another section, without its marker
RECURSIVE StepsClaimed(_, _, _)
StepsClaimed(lines, open, markers) ==
    IF lines = <<>> THEN <<>>
    ELSE LET line == strip(Head(lines))
             other == \/ Header(line, <<"e", "x", "p", "l", "a", "n", "a", "t", "i", "o", "n">>)
                      \/ Header(line, <<"r", "o", "o", "t", " ", "c", "a", "u", "s", "e">>)
         IN IF line = <<>> THEN StepsClaimed(Tail(lines), open, markers)
            ELSE IF other THEN StepsClaimed(Tail(lines), FALSE, markers)
            ELSE IF open /\ (line[1] \in markers \/ IsDigit(line[1]))
            THEN <<strip(lstrip(line, markers \cup {Digits[d] : d \in 1..10} \cup {".", " "}))>>
                 \o StepsClaimed(Tail(lines), TRUE, markers)
            ELSE IF Header(line, <<"f", "i", "x">>) THEN StepsClaimed(Tail(lines), TRUE, markers)
            ELSE StepsClaimed(Tail(lines), open, markers)

\* C20: the fix_steps _parse_response returns are, in order, the lines behind
\* the line that opened the steps that start with a bullet marker of the
\* provider or with a digit, each without its marker; none is dropped.
C20_StepsCollected ==
    pc = "returned" /\ entry = "_parse_response" =>
        ai_parsed.fix_steps =
            StepsClaimed(split(strip(ai_response), <<"\n">>), FALSE,
                         IF ai_provider = "groq" THEN {"-", "bullet", "*"} ELSE {"-", "bullet"})

\* the response cut after its first n lines
FirstLines(n) ==
    Flatten([i \in 1..n |-> IF i = 1 THEN split(ai_response, <<"\n">>)[i]
                            ELSE <<"\n">> \o split(ai_response, <<"\n">>)[i]])
\* the text the fallback puts into explanation
Fallback(response) == SubSeq(response, 1, IF Len(response) < 200 THEN Len(response) ELSE 200)

\* C21: a root_cause or an explanation that the scan has stored after some lines
\* of the response is the one returned for the whole response, whatever the
\* later lines; and a one-line response with the words explanation and root
\* cause before its colon stores its text as explanation only.
C21_FirstMatchWins ==
    pc = "returned" /\ entry = "_parse_response" =>
        /\ \A n \in 1..Len(split(ai_response, <<"\n">>)) :
           \A first \in {parse_response(ai_provider, FirstLines(n))} :
               /\ first.root_cause # <<>> => ai_parsed.root_cause = first.root_cause
               /\ first.explanation # Fallback(FirstLines(n)) =>
                      ai_parsed.explanation = first.explanation
        /\ /\ Len(split(ai_response, <<"\n">>)) = 1
           /\ Header(ai_response, <<"e", "x", "p", "l", "a", "n", "a", "t", "i", "o", "n">>)
           /\ Header(ai_response, <<"r", "o", "o", "t", " ", "c", "a", "u", "s", "e">>)
           => ai_parsed.root_cause = <<>> /\ ai_parsed.explanation # Fallback(ai_response)

\* the host port of a port mapping as the claim has it
HostPortClaimed(port_mapping) ==
    CASE port_mapping.t = "int" -> port_mapping
      [] port_mapping.t = "str" ->
           IF \A i \in 1..Len(SplitHead(port_mapping.s, <<":">>)) :
                  IsDigit(SplitHead(port_mapping.s, <<":">>)[i])
           THEN PyInt(DigitsVal(SplitHead(port_mapping.s, <<":">>)))
           ELSE PyNone
      [] port_mapping.t = "dict" ->
           IF In(port_mapping, K.published) THEN Get(port_mapping, K.published, PyNone)
           ELSE Get(port_mapping, K.target, PyNone)
      [] OTHER -> PyNone

\* C22: for every port mapping of the loaded config that validate visits,
\* _extract_host_port returns the int itself, the int before the first ':' of a
\* str (None when that part is no number), published of a long-form mapping, and
\* target when published is absent.
C22_HostPortExtraction ==
    pc = "returned" /\ OnCompose =>
        \A events \in {PortEvents(loader.config)} :
        \A n \in 1..Len(events) :
            events[n].pm # Exc =>
                extract_host_port(events[n].pm) = HostPortClaimed(events[n].pm)

\* the indices in order of the members of a set of indices
RECURSIVE InOrder(_)
InOrder(indices) ==
    IF indices = {} THEN <<>>
    ELSE LET least == CHOOSE n \in indices : \A m \in indices : n <= m
         IN <<least>> \o InOrder(indices \ {least})

\* C23: for each host port P the duplicate-port issues of the result are, in
\* order, one for each claim of P after the first: the issue of the k-th claim is
\* CRITICAL, has the service of that claim as service_name and the service of
\* the first claim as conflicting_service, so n claims yield n - 1 issues.
C23_FirstClaimantKept ==
    pc = "returned" /\ OnCompose =>
        \A mappings \in {Mappings} : \A P \in HostPorts(mappings) :
        \A claims \in {InOrder(MappingsOf(mappings, P))} :
        \A duplicates \in {InOrder({i \in ConflictsFor(P) :
                                      HasDetail(result.issues[i], "conflicting_service")})} :
            /\ Len(duplicates) = Len(claims) - 1
            /\ \A k \in 2..Len(claims) :
                 k - 1 <= Len(duplicates) =>
                     /\ result.issues[duplicates[k - 1]].severity = CRITICAL
                     /\ result.issues[duplicates[k - 1]].service_name =
                            PyStr(mappings[claims[k]].service)
                     /\ Detail(result.issues[duplicates[k - 1]], "conflicting_service", PyNone) =
                            PyStr(mappings[claims[1]].service)
\* a port claimed three times, the last two claims by a service that is not the
\* first claimant
C23_Witness ==
    /\ pc = "returned" /\ OnCompose
    /\ \E P \in HostPorts(Mappings) :
         /\ Cardinality(MappingsOf(Mappings, P)) = 3
         /\ Mappings[InOrder(MappingsOf(Mappings, P))[2]].service
                # Mappings[InOrder(MappingsOf(Mappings, P))[1]].service
         /\ Cardinality({i \in ConflictsFor(P) :
                           HasDetail(result.issues[i], "conflicting_service")}) = 2

\* the issues of the live probe among issues, and the answers among the first
\* n of probe that found the port bound
ProbeIssues(issues) == SelectSeq(issues, LAMBDA issue : HasDetail(issue, "process"))
Bound(probe, n) == SelectSeq([k \in 1..n |-> probe[k]], LAMBDA outcome : outcome # "free")

\* C24: whatever the live probes answer while the loaded config is validated,
\* validate raises only where it raises with all ports free; a probe that fails
\* or finds the port free adds no issue, a probe that connects adds one CRITICAL
\* PORT_CONFLICT issue, and when the owner of the port is not resolved that
\* issue carries the process details {pid, name: 'unknown'}.
C24_ProbeFailuresAbsorbed ==
    pc = "returned" /\ OnCompose =>
        \A probe \in Probes(loader.config) :
        \A scan \in {PortValidate(loader.config, probe)} :
        \A found \in {ProbeIssues(scan.issues)} :
        \A bound \in {Bound(probe, scan.probes)} :
            /\ scan.raised = PortValidate(loader.config, [k \in DOMAIN probe |-> "free"]).raised
            /\ Len(found) = Len(bound)
            /\ \A j \in 1..Len(found) :
                 j <= Len(bound) =>
                     /\ found[j].type = "port_conflict" /\ found[j].severity = CRITICAL
                     /\ bound[j] \in {"used_noproc", "used_unknown"} =>
                            /\ Detail(found[j], "process", PyNone).t = "proc"
                            /\ Detail(found[j], "process", PyNone).name = "unknown"

\* what the static validators of analyze_docker_compose return for the loaded
\* config, in the order they run
StaticValidators ==
    <<validate_images(loader.config),
      validate_environment_variables(loader.config, environ),
      validate_dependencies(loader.config),
      validate_volumes(loader.config),
      validate_networks(loader.config),
      validate_resource_limits(loader.config)>>

\* C25: whatever the types of the fields of the loaded Compose config, no
\* validator raises: each returns its list of issues, the analysis returns, and
\* every issue of every validator is in the result.
C25_ValidatorsNeverRaise ==
    pc \in {"returned", "raised"} /\ OnCompose =>
        \A ran \in {StaticValidators} :
            /\ \A v \in 1..Len(ran) : ~ran[v].raised
            /\ \A probe \in Probes(loader.config) : ~PortValidate(loader.config, probe).raised
            /\ pc = "returned"
            /\ \A v \in 1..Len(ran) : \A i \in 1..Len(ran[v].issues) :
                 \E j \in 1..Len(result.issues) : result.issues[j] = ran[v].issues[i]

\* the 'source:target' volume entries of the services of the loaded config: the
\* service and the source of each
VolumeEntries ==
    UNION {{[service |-> loader.config.services.d[i][1],
             source |-> SplitHead(volume.s, <<":">>)] :
            volume \in {v \in {Items(Get(loader.config.services.d[i][2], K.volumes, PyList(<<>>)))[k] :
                                   k \in 1..Len(Items(Get(loader.config.services.d[i][2], K.volumes, PyList(<<>>))))} :
                          v.t = "str" /\ Contains(v.s, <<":">>)}} :
           i \in {n \in 1..Len(loader.config.services.d) :
                    /\ loader.config.services.d[n][2].t = "dict"
                    /\ Iterable(Get(loader.config.services.d[n][2], K.volumes, PyList(<<>>)))}}
\* source is an absolute, a relative or a home-relative path
IsPath(source) ==
    \/ StartsWith(source, <<"/">>)
    \/ StartsWith(source, <<".", "/">>)
    \/ StartsWith(source, <<".", ".", "/">>)
    \/ StartsWith(source, <<"~">>)

\* C26: for every 'source:target' volume entry of a service, the result has a
\* WARNING VOLUME_MOUNT issue for that service and source if and only if source
\* is no absolute, relative ('./x', '../x') or home-relative path and no key of
\* the top-level volumes mapping.
C26_UndefinedVolume ==
    pc = "returned" /\ OnCompose =>
        \A entry_ \in VolumeEntries :
            (\E i \in 1..Len(result.issues) :
                /\ result.issues[i].type = "volume_mount"
                /\ result.issues[i].severity = WARNING
                /\ result.issues[i].service_name = PyStr(entry_.service)
                /\ Detail(result.issues[i], "volume", PyNone) = PyStr(entry_.source))
            <=> /\ ~IsPath(entry_.source)
                /\ entry_.source \notin KeySet(loader.config.volumes)

\* the Services of the loaded manifest, and the port entries of one
LoadedServices == OfKind(loader.resources, {S.Service})
PortEntries(service) == Items(Get(Get(service, K.spec, PyDict(<<>>)), K.ports, PyList(<<>>)))
\* the nodePorts a Service declares, as written in the manifest
NodePortsOf(service) ==
    IF Get(Get(service, K.spec, PyDict(<<>>)), K.type, PyNone) # PyStr(S.NodePort) THEN {}
    ELSE {FormatValue(Get(PortEntries(service)[k], K.nodePort, PyNone)) :
            k \in {j \in 1..Len(PortEntries(service)) :
                     Truthy(Get(PortEntries(service)[j], K.nodePort, PyNone))}}
\* Service n collides with an earlier, different Service of its namespace
Collides(services, n) ==
    \E m \in 1..(n - 1) :
        /\ MetaName(services[m]) # MetaName(services[n])
        /\ MetaNamespace(services[m]) = MetaNamespace(services[n])
        /\ NodePortsOf(services[m]) \cap NodePortsOf(services[n]) # {}
\* two port entries of the Service share (port, protocol)
SharesPort(service) ==
    \E j, k \in 1..Len(PortEntries(service)) :
        /\ j < k
        /\ Get(PortEntries(service)[j], K.port, PyNone) = Get(PortEntries(service)[k], K.port, PyNone)
        /\ Get(PortEntries(service)[j], K.protocol, PyStr(S.TCP))
               = Get(PortEntries(service)[k], K.protocol, PyStr(S.TCP))

\* C27: validate_services has a CRITICAL PORT_CONFLICT issue of a NodePort
\* collision for a Service exactly when an earlier, different Service of the
\* same namespace declares one of its nodePorts, and that issue names two
\* Services; it has a CRITICAL PORT_CONFLICT issue of a duplicate port for a
\* Service exactly when two of its port entries share (port, protocol).
C27_ServicePortConflicts ==
    pc = "returned" /\ ~OnCompose /\ loader.raised = "none" /\ ~KindRaises(loader.resources) =>
        \A scan \in {K8sValidateServices(loader.resources)} :
        \A services \in {LoadedServices} :
            ~scan.raised =>
                /\ \A i \in 1..Len(scan.issues) :
                     /\ scan.issues[i].type = "port_conflict" /\ scan.issues[i].severity = CRITICAL
                     /\ HasDetail(scan.issues[i], "conflicting_service") =>
                            /\ Detail(scan.issues[i], "conflicting_service", PyNone)
                                   # scan.issues[i].service_name
                            /\ Names(scan.issues[i], scan.issues[i].service_name)
                            /\ Names(scan.issues[i], Detail(scan.issues[i], "conflicting_service", PyNone))
                /\ \A n \in 1..Len(services) :
                     /\ (\E i \in 1..Len(scan.issues) :
                            /\ HasDetail(scan.issues[i], "conflicting_service")
                            /\ scan.issues[i].service_name = MetaName(services[n]))
                        <=> Collides(services, n)
                     /\ (\E i \in 1..Len(scan.issues) :
                            /\ HasDetail(scan.issues[i], "protocol")
                            /\ scan.issues[i].service_name = MetaName(services[n]))
                        <=> SharesPort(services[n])

\* C28: under the k-th CRITICAL issue a run displays the fix generated for that
\* issue, fixes[j] with j the index of the issue in result.issues (no fix when
\* none was generated for it).
C28_FixUnderItsIssue ==
    pc = "exited" /\ run.analysed /\ result # NoResult =>
        \A places \in {InOrder({i \in 1..Len(result.issues) : result.issues[i].severity = CRITICAL})} :
            /\ Len(run.shown.critical) = Len(places)
            /\ \A k \in 1..Len(places) :
                 k <= Len(run.shown.critical) =>
                     /\ run.shown.critical[k].issue = result.issues[places[k]]
                     /\ run.shown.critical[k].fix =
                            IF places[k] <= Len(result.fixes) THEN result.fixes[places[k]]
                            ELSE PyNone

\* C29: when the manifest loads and the five validators return without raising,
\* the issues of the returned result are the concatenation of the validators'
\* issues (services, deployments, security, probes, labels): fix generation
\* discards none.
C29_IssuesSurviveFixGeneration ==
    /\ pc = "returned" /\ entry = "analyze_kubernetes_manifest"
    /\ loader.raised = "none" /\ Len(loader.resources) > 0
    => \A found \in {K8sIssues(loader.resources)} :
           ~found.raised => result.issues = found.issues

\* C30: for every response text the two providers' _parse_response return the
\* same explanation, root_cause and fix_steps.
C30_ParsersEquivalent ==
    pc = "returned" /\ entry = "_parse_response" =>
        /\ ai_parsed = parse_response(ai_provider, ai_response)
        /\ parse_response("groq", ai_response) = parse_response("gemini", ai_response)

====
